---- MODULE Spec2Model ----
(***************************************************************************)
(* Model of the issue detection and prioritisation engine of KubAI:        *)
(* the shared agent capability (src/src/agents/base_agent.py), the         *)
(* delivery-pipeline analyzer (devops_agent.py), the ML-pipeline analyzer  *)
(* (mlops_agent.py) and the correlator (monitors/issue_detector.py).       *)
(*                                                                         *)
(* Numbers.  Python floats are modelled exactly:                           *)
(*   - a confidence is an integer number of hundredths (0.9 is 90);        *)
(*   - a quotient a / b kept in metadata is the reduced fraction           *)
(*     Ratio(a, b); a comparison  a / b > t  is cross-multiplied;          *)
(*   - a metric that may hold a non-number is a tagged value: Num(n) or    *)
(*     Str(s).  Arithmetic on a Str raises TypeError in the program.       *)
(* A Python dict is a function on its key set; dict.get(k, d) is Get.      *)
(* A call that raises is the outcome [raised |-> TRUE].                    *)
(***************************************************************************)
EXTENDS Integers, Sequences, FiniteSets, TLC

VARIABLES
  call,            \* the entry point the caller invoked
  pipeline_type,   \* the pipeline_type argument of analyze_pipelines
  pc,              \* the caller's position
  issues,          \* the Issue list passed as argument
  evidence,        \* the evidence mapping passed to _calculate_confidence
  ret,             \* the value returned by the call
  ret2,            \* the value returned by the second call on ret
  devops_data,     \* the metric batch given to DevOpsAgent.analyze
  mlops_data,      \* the metric batch given to MLOpsAgent.analyze
  devops_pc,       \* DevOpsAgent.analyze: the next sub-check to run
  mlops_pc,        \* MLOpsAgent.analyze: the next sub-check to run
  devops_local,    \* DevOpsAgent.analyze: its local list `issues`
  mlops_local,     \* MLOpsAgent.analyze: its local list `issues`
  devops_issues,   \* what DevOpsAgent.analyze returned
  mlops_issues,    \* what MLOpsAgent.analyze returned
  config,          \* PipelineOrchestrator.config.monitoring
  monitoring_active, \* PipelineOrchestrator.monitoring_active
  monitor_pc,      \* start_monitoring: its position in the loop
  cycles,          \* start_monitoring: analysis cycles started so far
  sleeps,          \* start_monitoring: interval waits completed so far
  notified         \* the argument of each call of _send_notifications in this cycle

vars == << call, pipeline_type, pc, issues, evidence, ret, ret2, devops_data, mlops_data,
           devops_pc, mlops_pc, devops_local, mlops_local,
           devops_issues, mlops_issues,
           config, monitoring_active, monitor_pc, cycles, sleeps, notified >>

monitoring_vars == << config, monitoring_active, monitor_pc, cycles, sleeps, notified >>

----------------------------------------------------------------------------
(* Python values *)

EmptyDict == [k \in {} |-> 0]

Get(d, k, default) == IF k \in DOMAIN d THEN d[k] ELSE default

Put(d, k, v) == [x \in DOMAIN d \cup {k} |-> IF x = k THEN v ELSE d[x]]

Num(n) == [num |-> n]

Str(s) == [str |-> s]

IsNumber(v) == "num" \in DOMAIN v

Min(a, b) == IF a < b THEN a ELSE b

Max(a, b) == IF a > b THEN a ELSE b

RECURSIVE GCD(_, _)
GCD(a, b) == IF b = 0 THEN a ELSE GCD(b, a % b)

(* the float a / b, b > 0, as a reduced fraction *)
Ratio(a, b) ==
  LET g == GCD(IF a < 0 THEN -a ELSE a, b)
  IN  [num |-> a \div g, den |-> b \div g]

RECURSIVE Sum(_)
Sum(s) == IF s = <<>> THEN 0 ELSE s[1] + Sum(Tail(s))

RECURSIVE MaxOf(_)
MaxOf(s) == IF Len(s) = 1 THEN s[1] ELSE Max(s[1], MaxOf(Tail(s)))

Reverse(s) == [i \in 1..Len(s) |-> s[Len(s) + 1 - i]]

Ok(list) == [raised |-> FALSE, issues |-> list]

Raise == [raised |-> TRUE, issues |-> <<>>]

(* tuple comparison  a < b  of Python, on pairs of integers *)
TupleLess(a, b) == a[1] < b[1] \/ (a[1] = b[1] /\ a[2] < b[2])

(* list.sort on <<key, item>> pairs, ascending and stable: each pair is    *)
(* placed after the pairs already placed whose key is not greater.         *)
InsertPair(sorted, p) ==
  LET k == Cardinality({i \in 1..Len(sorted) : ~TupleLess(p[1], sorted[i][1])})
  IN  SubSeq(sorted, 1, k) \o <<p>> \o SubSeq(sorted, k + 1, Len(sorted))

RECURSIVE SortPairs(_)
SortPairs(ps) ==
  IF ps = <<>> THEN <<>>
  ELSE InsertPair(SortPairs(SubSeq(ps, 1, Len(ps) - 1)), ps[Len(ps)])

(* sorted(items, key=..., reverse=...): keys[i] is the key of items[i].    *)
(* With reverse=True CPython reverses the list, sorts it ascending and     *)
(* reverses the result, so equal keys keep their original order.           *)
Sorted(items, keys, reverse) ==
  LET ps   == [i \in 1..Len(items) |-> <<keys[i], items[i]>>]
      done == IF reverse THEN Reverse(SortPairs(Reverse(ps))) ELSE SortPairs(ps)
  IN  [i \in 1..Len(items) |-> done[i][2]]

----------------------------------------------------------------------------
(* src/src/agents/base_agent.py *)

Issue(severity, category, title, description, affected_component, impact, recommendation, confidence, metadata) ==
  [ severity |-> severity, category |-> category, title |-> title,
    description |-> description, affected_component |-> affected_component,
    impact |-> impact, recommendation |-> recommendation,
    confidence |-> confidence, metadata |-> metadata ]

(* Python's None *)
None == [ none |-> TRUE ]

(* Issue.to_dict: the dict of the fields, with  self.metadata or {} *)
(* to_dict leaving the metadata out *)
to_dict_without_metadata(x) ==
  [ severity |-> x.severity, category |-> x.category, title |-> x.title,
    description |-> x.description, affected_component |-> x.affected_component,
    impact |-> x.impact, recommendation |-> x.recommendation,
    confidence |-> x.confidence ]

to_dict(x) ==
  [ severity |-> x.severity, category |-> x.category, title |-> x.title,
    description |-> x.description, affected_component |-> x.affected_component,
    impact |-> x.impact, recommendation |-> x.recommendation,
    confidence |-> x.confidence,
    metadata |-> IF x.metadata = None \/ x.metadata = EmptyDict
                 THEN EmptyDict ELSE x.metadata ]

(* an Issue built from the keywords of d; metadata defaults to None,        *)
(* any other missing or unknown keyword is a TypeError                      *)
from_dict(d) ==
  LET required == { "severity", "category", "title", "description", "affected_component",
                    "impact", "recommendation", "confidence" }
  IN  IF required \subseteq DOMAIN d /\ DOMAIN d \subseteq required \cup {"metadata"}
      THEN Ok(<< Issue(d.severity, d.category, d.title, d.description,
                       d.affected_component, d.impact, d.recommendation, d.confidence,
                       IF "metadata" \in DOMAIN d THEN d.metadata ELSE None) >>)
      ELSE Raise

(* weights of _calculate_confidence, in tenths *)
weights ==
  [ pattern_match |-> 3, statistical_significance |-> 4, historical_data |-> 3 ]

(* _calculate_confidence returning the score as summed, without          *)
(* min(max(score, 0.0), 1.0)                                               *)
calculate_confidence_unclamped(ev) ==
  LET Term(key) == IF key \in DOMAIN ev THEN ev[key] * weights[key] ELSE 0
  IN  Term("pattern_match") + Term("statistical_significance")
        + Term("historical_data")

(* evidence values are in tenths, the score and the result in hundredths *)
calculate_confidence(ev) ==
  LET Term(key) == IF key \in DOMAIN ev THEN ev[key] * weights[key] ELSE 0
      score == Term("pattern_match") + Term("statistical_significance")
                 + Term("historical_data")
  IN  Min(Max(score, 0), 100)

severity_order == [ critical |-> 4, high |-> 3, medium |-> 2, low |-> 1 ]

SortKey(x) == << Get(severity_order, x.severity, 0), x.confidence >>

(* _prioritize_issues with reverse=True left out: ascending order *)
prioritize_issues_ascending(list) ==
  Sorted(list, [i \in 1..Len(list) |-> SortKey(list[i])], FALSE)

(* _prioritize_issues as an ascending sort followed by list.reverse():    *)
(* issues with equal keys come out in reverse order                        *)
prioritize_issues_then_reverse(list) ==
  Reverse(Sorted(list, [i \in 1..Len(list) |-> SortKey(list[i])], FALSE))

(* _prioritize_issues sorting on the negated key after walking the input   *)
(* backwards: descending, but equal keys come out in reverse order         *)
prioritize_issues_backwards(list) ==
  LET back == Reverse(list)
  IN  Sorted(back, [i \in 1..Len(back) |->
                      << 0 - SortKey(back[i])[1], 0 - SortKey(back[i])[2] >>], FALSE)

prioritize_issues(list) ==
  Sorted(list, [i \in 1..Len(list) |-> SortKey(list[i])], TRUE)

RECURSIVE CountBy(_, _)
(* the dict built by  d[x.field] = d.get(x.field, 0) + 1  over the list *)
CountBy(list, field) ==
  IF list = <<>> THEN EmptyDict
  ELSE LET d == CountBy(SubSeq(list, 1, Len(list) - 1), field)
           k == list[Len(list)][field]
       IN  Put(d, k, Get(d, k, 0) + 1)

(* _generate_summary counting by_category on the severity field *)
generate_summary_by_severity_twice(list) ==
  IF list = <<>>
  THEN [ total |-> 0, by_severity |-> EmptyDict, by_category |-> EmptyDict ]
  ELSE [ total |-> Len(list),
         by_severity |-> CountBy(list, "severity"),
         by_category |-> CountBy(list, "severity") ]

generate_summary(list) ==
  IF list = <<>>
  THEN [ total |-> 0, by_severity |-> EmptyDict, by_category |-> EmptyDict ]
  ELSE [ total |-> Len(list),
         by_severity |-> CountBy(list, "severity"),
         by_category |-> CountBy(list, "category") ]

----------------------------------------------------------------------------
(* the Issue(...) literals of the analyzers and of the correlator; an       *)
(* f-string is kept as its template, metadata is the argument              *)

SlowBuildTimes(metadata) ==
  [ severity |-> "medium",
    category |-> "performance",
    title |-> "Slow Build Times",
    description |-> "Average build time is {avg_duration} seconds, exceeding recommended threshold",
    affected_component |-> "CI/CD Pipeline",
    impact |-> "Delayed feedback cycles, reduced developer productivity. Average delay: {avg_duration - 300}s per build",
    recommendation |-> "Consider: 1) Enable build caching, 2) Parallelize test execution, 3) Use faster build agents, 4) Optimize dependency resolution",
    confidence |-> 90,
    metadata |-> metadata ]

HighBuildFailureRate(metadata) ==
  [ severity |-> "high",
    category |-> "reliability",
    title |-> "High Build Failure Rate",
    description |-> "Build failure rate is {failure_rate}, indicating instability",
    affected_component |-> "Build Process",
    impact |-> "{failed_builds} out of {total_builds} builds failed. This blocks deployments and wastes resources",
    recommendation |-> "Investigate common failure patterns, improve test stability, add pre-commit hooks, review recent code changes",
    confidence |-> 95,
    metadata |-> metadata ]

FlakyTestsDetected(metadata) ==
  [ severity |-> "high",
    category |-> "reliability",
    title |-> "Flaky Tests Detected",
    description |-> "Found {len(flaky_tests)} flaky tests with intermittent failures",
    affected_component |-> "Test Suite",
    impact |-> "Flaky tests reduce confidence in test results, waste time investigating false failures, and may mask real issues",
    recommendation |-> "Investigate and fix flaky tests: {', '.join([t[0] for t in flaky_tests[:3]])}{'...' if len(flaky_tests) > 3 else ''}. Common causes: timing issues, shared state, external dependencies",
    confidence |-> 85,
    metadata |-> metadata ]

HighDeploymentFailureRate(metadata) ==
  [ severity |-> "critical",
    category |-> "reliability",
    title |-> "High Deployment Failure Rate",
    description |-> "Deployment failure rate is {failure_rate}",
    affected_component |-> "Deployment Pipeline",
    impact |-> "Failed deployments cause service disruptions, rollbacks, and delayed feature releases",
    recommendation |-> "Review deployment process, implement better pre-deployment testing, add automated rollback mechanisms, improve deployment scripts",
    confidence |-> 92,
    metadata |-> metadata ]

HighCPUUsage(metadata) ==
  [ severity |-> "high",
    category |-> "performance",
    title |-> "High CPU Usage",
    description |-> "CPU usage reached {max_cpu}% (average: {avg_cpu}%)",
    affected_component |-> "Build Infrastructure",
    impact |-> "High CPU usage causes build slowdowns, potential timeouts, and resource contention",
    recommendation |-> "Scale build agents, optimize build processes, distribute workload, investigate CPU-intensive operations",
    confidence |-> 88,
    metadata |-> metadata ]

HighMemoryUsage(metadata) ==
  [ severity |-> "high",
    category |-> "performance",
    title |-> "High Memory Usage",
    description |-> "Memory usage reached {max_memory}% (average: {avg_memory}%)",
    affected_component |-> "Build Infrastructure",
    impact |-> "High memory usage can cause OOM errors, build failures, and system instability",
    recommendation |-> "Increase memory allocation, optimize memory-intensive processes, investigate memory leaks, add memory monitoring",
    confidence |-> 87,
    metadata |-> metadata ]

CriticalSecurityVulnerabilitiesDetected(metadata) ==
  [ severity |-> "critical",
    category |-> "security",
    title |-> "Critical Security Vulnerabilities Detected",
    description |-> "Found {len(critical_vulns)} critical security vulnerabilities",
    affected_component |-> "Dependencies/Code",
    impact |-> "Critical vulnerabilities pose immediate security risks and must be addressed urgently",
    recommendation |-> "Update vulnerable dependencies immediately. CVEs: {', '.join([v.get('cve', 'Unknown') for v in critical_vulns[:3]])}",
    confidence |-> 98,
    metadata |-> metadata ]

MultipleHighSeverityVulnerabilities(metadata) ==
  [ severity |-> "high",
    category |-> "security",
    title |-> "Multiple High-Severity Vulnerabilities",
    description |-> "Found {len(high_vulns)} high-severity security vulnerabilities",
    affected_component |-> "Dependencies/Code",
    impact |-> "High-severity vulnerabilities require prompt attention to prevent potential security breaches",
    recommendation |-> "Review and update vulnerable dependencies, implement security scanning in CI/CD",
    confidence |-> 95,
    metadata |-> metadata ]

KubernetesPodFailures(metadata) ==
  [ severity |-> "critical",
    category |-> "reliability",
    title |-> "Kubernetes Pod Failures",
    description |-> "{len(failed_pods)} pods are in failed state",
    affected_component |-> "Kubernetes Cluster",
    impact |-> "Failed pods indicate application crashes, configuration errors, or resource issues. Services may be degraded or unavailable",
    recommendation |-> "Investigate pod logs with 'kubectl logs <pod-name>'. Common causes: image pull errors, OOM kills, liveness probe failures, misconfigured environment variables",
    confidence |-> 95,
    metadata |-> metadata ]

MultiplePodsStuckinPendingState(metadata) ==
  [ severity |-> "high",
    category |-> "reliability",
    title |-> "Multiple Pods Stuck in Pending State",
    description |-> "{len(pending_pods)} pods cannot be scheduled",
    affected_component |-> "Kubernetes Scheduler",
    impact |-> "Pending pods indicate resource constraints or scheduling issues, preventing services from scaling or deploying",
    recommendation |-> "Check node resources with 'kubectl describe nodes'. Verify resource requests/limits, node selectors, taints/tolerations, and cluster autoscaling configuration",
    confidence |-> 90,
    metadata |-> metadata ]

UnhealthyKubernetesNodes(metadata) ==
  [ severity |-> "critical",
    category |-> "reliability",
    title |-> "Unhealthy Kubernetes Nodes",
    description |-> "{len(unhealthy_nodes)} nodes are not in Ready state",
    affected_component |-> "Kubernetes Nodes",
    impact |-> "Unhealthy nodes reduce cluster capacity and may cause pod evictions or scheduling failures",
    recommendation |-> "Investigate node conditions with 'kubectl describe node <node-name>'. Check for disk pressure, memory pressure, network issues, or kubelet problems",
    confidence |-> 96,
    metadata |-> metadata ]

KubernetesDeploymentswithZeroAvailability(metadata) ==
  [ severity |-> "critical",
    category |-> "reliability",
    title |-> "Kubernetes Deployments with Zero Availability",
    description |-> "{len(failed_deployments)} deployments have no available replicas",
    affected_component |-> "Kubernetes Deployments",
    impact |-> "Services are completely unavailable, causing outages and service disruptions",
    recommendation |-> "Check deployment status: 'kubectl describe deployment {failed_deployments[0] if failed_deployments else '<name>'}'. Review pod events, resource limits, and image availability",
    confidence |-> 98,
    metadata |-> metadata ]

UnderScaledKubernetesDeployments(metadata) ==
  [ severity |-> "high",
    category |-> "reliability",
    title |-> "Under-Scaled Kubernetes Deployments",
    description |-> "{len(underscaled)} deployments running below desired replica count",
    affected_component |-> "Kubernetes Deployments",
    impact |-> "Reduced capacity and redundancy, potential performance degradation and single points of failure",
    recommendation |-> "Investigate why replicas aren't starting. Check resource availability, HPA configuration, and pod scheduling constraints",
    confidence |-> 88,
    metadata |-> metadata ]

HighKubernetesClusterCPUUsage(metadata) ==
  [ severity |-> "high",
    category |-> "performance",
    title |-> "High Kubernetes Cluster CPU Usage",
    description |-> "Cluster CPU usage at {cpu_usage_pct}%",
    affected_component |-> "Kubernetes Cluster Resources",
    impact |-> "High CPU usage may cause throttling, slow response times, and pod scheduling failures",
    recommendation |-> "Scale cluster nodes, optimize pod resource requests/limits, identify CPU-intensive workloads, consider horizontal pod autoscaling",
    confidence |-> 92,
    metadata |-> metadata ]

HighKubernetesClusterMemoryUsage(metadata) ==
  [ severity |-> "high",
    category |-> "performance",
    title |-> "High Kubernetes Cluster Memory Usage",
    description |-> "Cluster memory usage at {memory_usage_pct}%",
    affected_component |-> "Kubernetes Cluster Resources",
    impact |-> "High memory usage may trigger OOM kills, pod evictions, and prevent new pods from scheduling",
    recommendation |-> "Scale cluster nodes, review memory requests/limits, investigate memory leaks, enable cluster autoscaling",
    confidence |-> 92,
    metadata |-> metadata ]

PendingPersistentVolumeClaims(metadata) ==
  [ severity |-> "high",
    category |-> "reliability",
    title |-> "Pending Persistent Volume Claims",
    description |-> "{len(pending_pvcs)} PVCs unable to bind to volumes",
    affected_component |-> "Kubernetes Storage",
    impact |-> "Applications requiring persistent storage cannot start, blocking deployments and causing data access issues",
    recommendation |-> "Check storage class availability, verify volume provisioner is working, ensure sufficient storage capacity in cluster",
    confidence |-> 87,
    metadata |-> metadata ]

HighServiceMeshErrorRate(metadata) ==
  [ severity |-> "high",
    category |-> "reliability",
    title |-> "High Service Mesh Error Rate",
    description |-> "Service mesh reporting {error_rate} error rate",
    affected_component |-> "Service Mesh",
    impact |-> "High error rates indicate service communication failures, impacting application reliability",
    recommendation |-> "Review service mesh metrics, check for misconfigured routes, verify mTLS settings, investigate failing services",
    confidence |-> 85,
    metadata |-> metadata ]

ModelPerformanceDegradationDetected(metadata) ==
  [ severity |-> "high",
    category |-> "quality",
    title |-> "Model Performance Degradation Detected",
    description |-> "Model accuracy dropped by {accuracy_drop} from {older_accuracy} to {recent_accuracy}",
    affected_component |-> "ML Model",
    impact |-> "Degraded model performance affects prediction quality and business outcomes",
    recommendation |-> "Investigate data drift, retrain model with recent data, review feature engineering, check for concept drift",
    confidence |-> 88,
    metadata |-> metadata ]

LowModelF1Score(metadata) ==
  [ severity |-> "medium",
    category |-> "quality",
    title |-> "Low Model F1 Score",
    description |-> "Current F1 score is {f1_score}, below threshold of {self.metric_thresholds['model_performance']['f1_score_threshold']}",
    affected_component |-> "ML Model",
    impact |-> "Low F1 score indicates poor balance between precision and recall",
    recommendation |-> "Review class imbalance, adjust decision threshold, improve feature selection, collect more training data for underrepresented classes",
    confidence |-> 85,
    metadata |-> metadata ]

LongTrainingTimes(metadata) ==
  [ severity |-> "medium",
    category |-> "performance",
    title |-> "Long Training Times",
    description |-> "Average training time is {avg_duration/3600} hours",
    affected_component |-> "Training Pipeline",
    impact |-> "Long training times slow down model iteration and increase costs",
    recommendation |-> "Optimize training code, use mixed precision training, implement gradient accumulation, consider distributed training, profile training loop for bottlenecks",
    confidence |-> 82,
    metadata |-> metadata ]

LowGPUUtilization(metadata) ==
  [ severity |-> "medium",
    category |-> "cost",
    title |-> "Low GPU Utilization",
    description |-> "Average GPU utilization is {avg_gpu_util}",
    affected_component |-> "Training Infrastructure",
    impact |-> "Underutilized GPUs waste {(1-avg_gpu_util)*100}% of compute resources and increase training costs",
    recommendation |-> "Increase batch size, optimize data loading pipeline, use data prefetching, profile GPU bottlenecks, consider mixed precision training",
    confidence |-> 90,
    metadata |-> metadata ]

HighTrainingFailureRate(metadata) ==
  [ severity |-> "high",
    category |-> "reliability",
    title |-> "High Training Failure Rate",
    description |-> "Training failure rate is {failure_rate}",
    affected_component |-> "Training Pipeline",
    impact |-> "Training failures waste resources and delay model development",
    recommendation |-> "Add robust error handling, implement checkpointing, validate data before training, add memory monitoring, review training logs for common errors",
    confidence |-> 87,
    metadata |-> metadata ]

DataDriftDetected(metadata) ==
  [ severity |-> "high",
    category |-> "quality",
    title |-> "Data Drift Detected",
    description |-> "Data drift score is {drift_score}, exceeding threshold",
    affected_component |-> "Input Data",
    impact |-> "Data drift causes model performance degradation and unreliable predictions",
    recommendation |-> "Retrain model with recent data, implement continuous monitoring, set up automated retraining pipeline, investigate root cause of drift",
    confidence |-> 92,
    metadata |-> metadata ]

LowDataQuality(metadata) ==
  [ severity |-> "medium",
    category |-> "quality",
    title |-> "Low Data Quality",
    description |-> "Data quality score is {quality_score}",
    affected_component |-> "Input Data",
    impact |-> "Low data quality leads to poor model performance and unreliable predictions",
    recommendation |-> "Implement data validation rules, add data quality checks in pipeline, investigate and fix data collection issues, add data cleaning steps",
    confidence |-> 85,
    metadata |-> metadata ]

HighMissingValueRate(metadata) ==
  [ severity |-> "medium",
    category |-> "quality",
    title |-> "High Missing Value Rate",
    description |-> "Missing value rate is {missing_rate}",
    affected_component |-> "Input Data",
    impact |-> "High missing value rate reduces model training effectiveness and prediction coverage",
    recommendation |-> "Implement proper imputation strategies, investigate data collection issues, consider dropping features with excessive missing values, add data validation",
    confidence |-> 80,
    metadata |-> metadata ]

HighInferenceLatency(metadata) ==
  [ severity |-> "high",
    category |-> "performance",
    title |-> "High Inference Latency",
    description |-> "P95 inference latency is {latency_p95}ms",
    affected_component |-> "Model Serving",
    impact |-> "High latency degrades user experience and may violate SLAs",
    recommendation |-> "Optimize model (quantization, pruning), use model serving optimizations (batching, caching), scale horizontally, consider lighter model architecture",
    confidence |-> 88,
    metadata |-> metadata ]

LowInferenceThroughput(metadata) ==
  [ severity |-> "medium",
    category |-> "performance",
    title |-> "Low Inference Throughput",
    description |-> "Inference throughput is {throughput} req/s",
    affected_component |-> "Model Serving",
    impact |-> "Low throughput limits system capacity and may require overprovisioning",
    recommendation |-> "Enable request batching, optimize preprocessing, use GPU inference, implement model parallelism, review resource allocation",
    confidence |-> 83,
    metadata |-> metadata ]

HighInferenceErrorRate(metadata) ==
  [ severity |-> "critical",
    category |-> "reliability",
    title |-> "High Inference Error Rate",
    description |-> "Inference error rate is {error_rate}",
    affected_component |-> "Model Serving",
    impact |-> "High error rate indicates serving instability and affects user experience",
    recommendation |-> "Investigate error logs, add input validation, implement fallback mechanisms, improve error handling, monitor model serving health",
    confidence |-> 95,
    metadata |-> metadata ]

PoorExperimentOrganization(metadata) ==
  [ severity |-> "low",
    category |-> "quality",
    title |-> "Poor Experiment Organization",
    description |-> "{len(untagged)} out of {len(experiments)} experiments lack proper tagging",
    affected_component |-> "Experiment Tracking",
    impact |-> "Poor organization makes it difficult to track progress and reproduce results",
    recommendation |-> "Implement consistent tagging strategy, add metadata to experiments, use meaningful names, document experiment purpose",
    confidence |-> 75,
    metadata |-> metadata ]

CascadingFailuresDetected(metadata) ==
  [ severity |-> "critical",
    category |-> "reliability",
    title |-> "Cascading Failures Detected",
    description |-> "Build failures ({len(build_failures)}) are likely causing deployment issues ({len(deployment_failures)})",
    affected_component |-> "CI/CD Pipeline",
    impact |-> "Build failures block deployments, creating a bottleneck in the release process",
    recommendation |-> "Fix build issues first: address test failures, resolve dependency conflicts, improve build stability",
    confidence |-> 85,
    metadata |-> metadata ]

SystemWideResourceConstraints(metadata) ==
  [ severity |-> "high",
    category |-> "performance",
    title |-> "System-Wide Resource Constraints",
    description |-> "Multiple pipelines experiencing resource constraints ({len(resource_issues)} issues)",
    affected_component |-> "Infrastructure",
    impact |-> "Resource constraints are creating bottlenecks across DevOps and MLOps pipelines",
    recommendation |-> "Scale infrastructure, optimize resource allocation, implement resource quotas, investigate resource leaks",
    confidence |-> 80,
    metadata |-> metadata ]

----------------------------------------------------------------------------
(* strings *)

(* str.lower(), tabulated for the titles and components of the model *)
str_lower ==
  ("High Build Failure Rate" :> "high build failure rate")
  @@ ("Build Process" :> "build process")
  @@ ("Slow Build Times" :> "slow build times")
  @@ ("CI/CD Pipeline" :> "ci/cd pipeline")
  @@ ("Flaky Tests Detected" :> "flaky tests detected")
  @@ ("Test Suite" :> "test suite")
  @@ ("High Deployment Failure Rate" :> "high deployment failure rate")
  @@ ("Deployment Pipeline" :> "deployment pipeline")
  @@ ("High CPU Usage" :> "high cpu usage")
  @@ ("Build Infrastructure" :> "build infrastructure")
  @@ ("High Memory Usage" :> "high memory usage")
  @@ ("Critical Security Vulnerabilities Detected" :> "critical security vulnerabilities detected")
  @@ ("Dependencies/Code" :> "dependencies/code")
  @@ ("Multiple High-Severity Vulnerabilities" :> "multiple high-severity vulnerabilities")
  @@ ("Kubernetes Pod Failures" :> "kubernetes pod failures")
  @@ ("Kubernetes Cluster" :> "kubernetes cluster")
  @@ ("Multiple Pods Stuck in Pending State" :> "multiple pods stuck in pending state")
  @@ ("Kubernetes Scheduler" :> "kubernetes scheduler")
  @@ ("Unhealthy Kubernetes Nodes" :> "unhealthy kubernetes nodes")
  @@ ("Kubernetes Nodes" :> "kubernetes nodes")
  @@ ("Kubernetes Deployments with Zero Availability" :> "kubernetes deployments with zero availability")
  @@ ("Kubernetes Deployments" :> "kubernetes deployments")
  @@ ("Under-Scaled Kubernetes Deployments" :> "under-scaled kubernetes deployments")
  @@ ("High Kubernetes Cluster CPU Usage" :> "high kubernetes cluster cpu usage")
  @@ ("Kubernetes Cluster Resources" :> "kubernetes cluster resources")
  @@ ("High Kubernetes Cluster Memory Usage" :> "high kubernetes cluster memory usage")
  @@ ("Pending Persistent Volume Claims" :> "pending persistent volume claims")
  @@ ("Kubernetes Storage" :> "kubernetes storage")
  @@ ("High Service Mesh Error Rate" :> "high service mesh error rate")
  @@ ("Service Mesh" :> "service mesh")
  @@ ("Low Model F1 Score" :> "low model f1 score")
  @@ ("ML Model" :> "ml model")
  @@ ("Model Performance Degradation Detected" :> "model performance degradation detected")
  @@ ("High Training Failure Rate" :> "high training failure rate")
  @@ ("Training Pipeline" :> "training pipeline")
  @@ ("Long Training Times" :> "long training times")
  @@ ("Low GPU Utilization" :> "low gpu utilization")
  @@ ("Training Infrastructure" :> "training infrastructure")
  @@ ("Data Drift Detected" :> "data drift detected")
  @@ ("Input Data" :> "input data")
  @@ ("Low Data Quality" :> "low data quality")
  @@ ("High Missing Value Rate" :> "high missing value rate")
  @@ ("High Inference Latency" :> "high inference latency")
  @@ ("Model Serving" :> "model serving")
  @@ ("Low Inference Throughput" :> "low inference throughput")
  @@ ("High Inference Error Rate" :> "high inference error rate")
  @@ ("Poor Experiment Organization" :> "poor experiment organization")
  @@ ("Experiment Tracking" :> "experiment tracking")
  @@ ("Cascading Failures Detected" :> "cascading failures detected")
  @@ ("System-Wide Resource Constraints" :> "system-wide resource constraints")
  @@ ("Infrastructure" :> "infrastructure")
  @@ ("Systemic Performance Issues" :> "systemic performance issues")
  @@ ("Systemic Reliability Issues" :> "systemic reliability issues")
  @@ ("Systemic Security Issues" :> "systemic security issues")
  @@ ("Systemic Cost Issues" :> "systemic cost issues")
  @@ ("Systemic Quality Issues" :> "systemic quality issues")
  @@ ("Platform-Wide" :> "platform-wide")
  @@ ("BUILD BROKEN" :> "build broken")
  @@ ("Build and Deployment Blocked" :> "build and deployment blocked")
  @@ ("GPU Memory Exhausted" :> "gpu memory exhausted")

(* the searched keywords that are substrings of each string (case matters) *)
KeywordsIn ==
  ("High Build Failure Rate" :> {})
  @@ ("Build Process" :> {})
  @@ ("Slow Build Times" :> {})
  @@ ("CI/CD Pipeline" :> {})
  @@ ("Flaky Tests Detected" :> {})
  @@ ("Test Suite" :> {})
  @@ ("High Deployment Failure Rate" :> {})
  @@ ("Deployment Pipeline" :> {})
  @@ ("High CPU Usage" :> {})
  @@ ("Build Infrastructure" :> {})
  @@ ("High Memory Usage" :> {})
  @@ ("Critical Security Vulnerabilities Detected" :> {})
  @@ ("Dependencies/Code" :> {})
  @@ ("Multiple High-Severity Vulnerabilities" :> {})
  @@ ("Kubernetes Pod Failures" :> {})
  @@ ("Kubernetes Cluster" :> {})
  @@ ("Multiple Pods Stuck in Pending State" :> {})
  @@ ("Kubernetes Scheduler" :> {})
  @@ ("Unhealthy Kubernetes Nodes" :> {})
  @@ ("Kubernetes Nodes" :> {})
  @@ ("Kubernetes Deployments with Zero Availability" :> {})
  @@ ("Kubernetes Deployments" :> {})
  @@ ("Under-Scaled Kubernetes Deployments" :> {})
  @@ ("High Kubernetes Cluster CPU Usage" :> {})
  @@ ("Kubernetes Cluster Resources" :> {})
  @@ ("High Kubernetes Cluster Memory Usage" :> {})
  @@ ("Pending Persistent Volume Claims" :> {})
  @@ ("Kubernetes Storage" :> {})
  @@ ("High Service Mesh Error Rate" :> {})
  @@ ("Service Mesh" :> {})
  @@ ("Low Model F1 Score" :> {})
  @@ ("ML Model" :> {})
  @@ ("Model Performance Degradation Detected" :> {})
  @@ ("High Training Failure Rate" :> {})
  @@ ("Training Pipeline" :> {})
  @@ ("Long Training Times" :> {})
  @@ ("Low GPU Utilization" :> {})
  @@ ("Training Infrastructure" :> {})
  @@ ("Data Drift Detected" :> {})
  @@ ("Input Data" :> {})
  @@ ("Low Data Quality" :> {})
  @@ ("High Missing Value Rate" :> {})
  @@ ("High Inference Latency" :> {})
  @@ ("Model Serving" :> {})
  @@ ("Low Inference Throughput" :> {})
  @@ ("High Inference Error Rate" :> {})
  @@ ("Poor Experiment Organization" :> {})
  @@ ("Experiment Tracking" :> {})
  @@ ("Cascading Failures Detected" :> {})
  @@ ("System-Wide Resource Constraints" :> {})
  @@ ("Infrastructure" :> {})
  @@ ("Systemic Performance Issues" :> {})
  @@ ("Systemic Reliability Issues" :> {})
  @@ ("Systemic Security Issues" :> {})
  @@ ("Systemic Cost Issues" :> {})
  @@ ("Systemic Quality Issues" :> {})
  @@ ("Platform-Wide" :> {})
  @@ ("BUILD BROKEN" :> {})
  @@ ("Build and Deployment Blocked" :> {})
  @@ ("GPU Memory Exhausted" :> {})
  @@ ("high build failure rate" :> {"build"})
  @@ ("build process" :> {"build"})
  @@ ("slow build times" :> {"build"})
  @@ ("ci/cd pipeline" :> {})
  @@ ("flaky tests detected" :> {"test"})
  @@ ("test suite" :> {"test"})
  @@ ("high deployment failure rate" :> {"deployment"})
  @@ ("deployment pipeline" :> {"deployment"})
  @@ ("high cpu usage" :> {"cpu"})
  @@ ("build infrastructure" :> {"build"})
  @@ ("high memory usage" :> {"memory"})
  @@ ("critical security vulnerabilities detected" :> {})
  @@ ("dependencies/code" :> {})
  @@ ("multiple high-severity vulnerabilities" :> {})
  @@ ("kubernetes pod failures" :> {"kubernetes"})
  @@ ("kubernetes cluster" :> {"kubernetes"})
  @@ ("multiple pods stuck in pending state" :> {})
  @@ ("kubernetes scheduler" :> {"kubernetes"})
  @@ ("unhealthy kubernetes nodes" :> {"kubernetes"})
  @@ ("kubernetes nodes" :> {"kubernetes"})
  @@ ("kubernetes deployments with zero availability" :> {"deployment", "kubernetes"})
  @@ ("kubernetes deployments" :> {"deployment", "kubernetes"})
  @@ ("under-scaled kubernetes deployments" :> {"deployment", "kubernetes"})
  @@ ("high kubernetes cluster cpu usage" :> {"cpu", "kubernetes"})
  @@ ("kubernetes cluster resources" :> {"resource", "kubernetes"})
  @@ ("high kubernetes cluster memory usage" :> {"memory", "kubernetes"})
  @@ ("pending persistent volume claims" :> {})
  @@ ("kubernetes storage" :> {"kubernetes"})
  @@ ("high service mesh error rate" :> {})
  @@ ("service mesh" :> {})
  @@ ("low model f1 score" :> {})
  @@ ("ml model" :> {})
  @@ ("model performance degradation detected" :> {})
  @@ ("high training failure rate" :> {})
  @@ ("training pipeline" :> {})
  @@ ("long training times" :> {})
  @@ ("low gpu utilization" :> {"gpu"})
  @@ ("training infrastructure" :> {})
  @@ ("data drift detected" :> {})
  @@ ("input data" :> {})
  @@ ("low data quality" :> {})
  @@ ("high missing value rate" :> {})
  @@ ("high inference latency" :> {"inference"})
  @@ ("model serving" :> {})
  @@ ("low inference throughput" :> {"inference"})
  @@ ("high inference error rate" :> {"inference"})
  @@ ("poor experiment organization" :> {})
  @@ ("experiment tracking" :> {})
  @@ ("cascading failures detected" :> {})
  @@ ("system-wide resource constraints" :> {"resource"})
  @@ ("infrastructure" :> {})
  @@ ("systemic performance issues" :> {})
  @@ ("systemic reliability issues" :> {})
  @@ ("systemic security issues" :> {})
  @@ ("systemic cost issues" :> {})
  @@ ("systemic quality issues" :> {})
  @@ ("platform-wide" :> {})
  @@ ("build broken" :> {"build"})
  @@ ("build and deployment blocked" :> {"build", "deployment"})
  @@ ("gpu memory exhausted" :> {"memory", "gpu"})

(* str.title() of the categories *)
str_title ==
  ("performance" :> "Performance")
  @@ ("reliability" :> "Reliability")
  @@ ("security" :> "Security")
  @@ ("cost" :> "Cost")
  @@ ("quality" :> "Quality")


----------------------------------------------------------------------------
(* exact arithmetic on the reduced fractions that stand for floats *)

RAdd(a, b) == Ratio(a.num * b.den + b.num * a.den, a.den * b.den)

RSub(a, b) == Ratio(a.num * b.den - b.num * a.den, a.den * b.den)

RLess(a, b) == a.num * b.den < b.num * a.den

RECURSIVE RSum(_)
RSum(s) == IF s = <<>> THEN Ratio(0, 1) ELSE RAdd(s[1], RSum(Tail(s)))

(* sum(s) / len(s) and statistics.mean(s) on integers, s not empty *)
Mean(s) == Ratio(Sum(s), Len(s))

(* statistics.mean on fractions, s not empty *)
RMean(s) == LET t == RSum(s) IN Ratio(t.num, t.den * Len(s))

(* [f(x) for x in s] *)
Values(s, key, default) == [i \in 1..Len(s) |-> Get(s[i], key, default)]

(* x.get(key) == value *)
Has(x, key, value) == key \in DOMAIN x /\ x[key] = value

(* x.get(key) is true in Python: a present, non-empty string *)
Truthy(x, key) == key \in DOMAIN x /\ x[key] # ""

Unwrap(s) == [i \in 1..Len(s) |-> s[i].num]

AllNumbers(s) == \A i \in 1..Len(s) : IsNumber(s[i])

RECURSIVE FirstSeen(_)
(* the keys of a dict filled in the order of s: each once, first seen first *)
FirstSeen(s) ==
  IF s = <<>> THEN <<>>
  ELSE LET front == FirstSeen(SubSeq(s, 1, Len(s) - 1))
           x == s[Len(s)]
       IN  IF \E i \in 1..Len(front) : front[i] = x THEN front
           ELSE Append(front, x)

----------------------------------------------------------------------------
(* src/src/agents/devops_agent.py *)

issue_patterns == [ slow_builds |-> [ threshold |-> 600 ] ]

(* _analyze_build_performance averaging the durations of all builds *)
analyze_build_performance_all_builds(builds) ==
  IF builds = <<>> THEN Ok(<<>>)
  ELSE
    LET successes == builds
        durations == Values(successes, "duration", Num(0))
        avg_duration == Mean(Unwrap(durations))
        slow ==
          IF durations # <<>>
               /\ RLess(Ratio(issue_patterns.slow_builds.threshold, 1), avg_duration)
          THEN << SlowBuildTimes([ avg_duration |-> avg_duration,
                                   sample_size |-> Len(durations) ]) >>
          ELSE <<>>
        total_builds == Len(builds)
        failed_builds == Len(SelectSeq(builds, LAMBDA b : Has(b, "status", "failed")))
        failure_rate == Ratio(failed_builds, total_builds)
        failing ==
          IF RLess(Ratio(15, 100), failure_rate)
          THEN << HighBuildFailureRate([ failure_rate |-> failure_rate,
                                         failed_count |-> failed_builds,
                                         total_count |-> total_builds ]) >>
          ELSE <<>>
    IN  IF durations # <<>> /\ ~AllNumbers(durations)
        THEN Raise                       \* sum(durations): TypeError
        ELSE Ok(slow \o failing)

(* _analyze_build_performance with  failure_rate >= 0.15 *)
analyze_build_performance_at_threshold(builds) ==
  IF builds = <<>> THEN Ok(<<>>)
  ELSE
    LET successes == SelectSeq(builds, LAMBDA b : Has(b, "status", "success"))
        durations == Values(successes, "duration", Num(0))
        avg_duration == Mean(Unwrap(durations))
        slow ==
          IF durations # <<>>
               /\ RLess(Ratio(issue_patterns.slow_builds.threshold, 1), avg_duration)
          THEN << SlowBuildTimes([ avg_duration |-> avg_duration,
                                   sample_size |-> Len(durations) ]) >>
          ELSE <<>>
        total_builds == Len(builds)
        failed_builds == Len(SelectSeq(builds, LAMBDA b : Has(b, "status", "failed")))
        failure_rate == Ratio(failed_builds, total_builds)
        failing ==
          IF ~RLess(failure_rate, Ratio(15, 100))
          THEN << HighBuildFailureRate([ failure_rate |-> failure_rate,
                                         failed_count |-> failed_builds,
                                         total_count |-> total_builds ]) >>
          ELSE <<>>
    IN  IF durations # <<>> /\ ~AllNumbers(durations)
        THEN Raise                       \* sum(durations): TypeError
        ELSE Ok(slow \o failing)

analyze_build_performance(builds) ==
  IF builds = <<>> THEN Ok(<<>>)
  ELSE
    LET successes == SelectSeq(builds, LAMBDA b : Has(b, "status", "success"))
        durations == Values(successes, "duration", Num(0))
        avg_duration == Mean(Unwrap(durations))
        slow ==
          IF durations # <<>>
               /\ RLess(Ratio(issue_patterns.slow_builds.threshold, 1), avg_duration)
          THEN << SlowBuildTimes([ avg_duration |-> avg_duration,
                                   sample_size |-> Len(durations) ]) >>
          ELSE <<>>
        total_builds == Len(builds)
        failed_builds == Len(SelectSeq(builds, LAMBDA b : Has(b, "status", "failed")))
        failure_rate == Ratio(failed_builds, total_builds)
        failing ==
          IF RLess(Ratio(15, 100), failure_rate)
          THEN << HighBuildFailureRate([ failure_rate |-> failure_rate,
                                         failed_count |-> failed_builds,
                                         total_count |-> total_builds ]) >>
          ELSE <<>>
    IN  IF durations # <<>> /\ ~AllNumbers(durations)
        THEN Raise                       \* sum(durations): TypeError
        ELSE Ok(slow \o failing)

(* _analyze_test_reliability with  0.1 <= failure_rate <= 0.9 *)
analyze_test_reliability_closed_interval(tests) ==
  LET named == SelectSeq(tests, LAMBDA t : Truthy(t, "name"))
      names == FirstSeen(Values(named, "name", ""))
      passed(n) == Len(SelectSeq(named, LAMBDA t : t.name = n /\ Has(t, "status", "passed")))
      failed(n) == Len(SelectSeq(named, LAMBDA t : t.name = n /\ ~Has(t, "status", "passed")))
      total(n) == passed(n) + failed(n)
      IsFlaky(n) ==
        /\ total(n) > 1 /\ failed(n) > 0 /\ passed(n) > 0
        /\ ~RLess(Ratio(failed(n), total(n)), Ratio(1, 10))
        /\ ~RLess(Ratio(9, 10), Ratio(failed(n), total(n)))
      flaky_names == SelectSeq(names, IsFlaky)
      flaky_tests == [ i \in 1..Len(flaky_names) |->
                         [ name |-> flaky_names[i],
                           failure_rate |-> Ratio(failed(flaky_names[i]),
                                                  total(flaky_names[i])) ] ]
  IN  IF flaky_tests # <<>>
      THEN Ok(<< FlakyTestsDetected([ flaky_tests |-> flaky_tests ]) >>)
      ELSE Ok(<<>>)

analyze_test_reliability(tests) ==
  LET named == SelectSeq(tests, LAMBDA t : Truthy(t, "name"))
      names == FirstSeen(Values(named, "name", ""))
      passed(n) == Len(SelectSeq(named, LAMBDA t : t.name = n /\ Has(t, "status", "passed")))
      failed(n) == Len(SelectSeq(named, LAMBDA t : t.name = n /\ ~Has(t, "status", "passed")))
      total(n) == passed(n) + failed(n)
      IsFlaky(n) ==
        /\ total(n) > 1 /\ failed(n) > 0 /\ passed(n) > 0
        /\ RLess(Ratio(1, 10), Ratio(failed(n), total(n)))
        /\ RLess(Ratio(failed(n), total(n)), Ratio(9, 10))
      flaky_names == SelectSeq(names, IsFlaky)
      flaky_tests == [ i \in 1..Len(flaky_names) |->
                         [ name |-> flaky_names[i],
                           failure_rate |-> Ratio(failed(flaky_names[i]),
                                                  total(flaky_names[i])) ] ]
  IN  IF flaky_tests # <<>>
      THEN Ok(<< FlakyTestsDetected([ flaky_tests |-> flaky_tests ]) >>)
      ELSE Ok(<<>>)

(* _analyze_deployments without the timestamp filter *)
analyze_deployments_all_records(deployments) ==
  IF deployments = <<>> THEN Ok(<<>>)
  ELSE
    LET recent_deployments == deployments
        failed_deployments ==
          SelectSeq(recent_deployments, LAMBDA d : Has(d, "status", "failed"))
        failure_rate == Ratio(Len(failed_deployments), Len(recent_deployments))
    IN  IF failed_deployments # <<>> /\ RLess(Ratio(1, 10), failure_rate)
        THEN Ok(<< HighDeploymentFailureRate(
                     [ failure_rate |-> failure_rate,
                       failed_count |-> Len(failed_deployments),
                       total_count |-> Len(recent_deployments) ]) >>)
        ELSE Ok(<<>>)

analyze_deployments(deployments) ==
  IF deployments = <<>> THEN Ok(<<>>)
  ELSE
    LET recent_deployments == SelectSeq(deployments, LAMBDA d : Truthy(d, "timestamp"))
        failed_deployments ==
          SelectSeq(recent_deployments, LAMBDA d : Has(d, "status", "failed"))
        failure_rate == Ratio(Len(failed_deployments), Len(recent_deployments))
    IN  IF failed_deployments # <<>> /\ RLess(Ratio(1, 10), failure_rate)
        THEN Ok(<< HighDeploymentFailureRate(
                     [ failure_rate |-> failure_rate,
                       failed_count |-> Len(failed_deployments),
                       total_count |-> Len(recent_deployments) ]) >>)
        ELSE Ok(<<>>)

analyze_resource_usage(resources) ==
  LET cpu_usage == Get(resources, "cpu_usage", <<>>)
      memory_usage == Get(resources, "memory_usage", <<>>)
      max_cpu == MaxOf(Unwrap(cpu_usage))
      max_memory == MaxOf(Unwrap(memory_usage))
      cpu ==
        IF cpu_usage # <<>> /\ max_cpu > 90
        THEN << HighCPUUsage([ max_cpu |-> max_cpu,
                               avg_cpu |-> Mean(Unwrap(cpu_usage)) ]) >>
        ELSE <<>>
      memory ==
        IF memory_usage # <<>> /\ max_memory > 85
        THEN << HighMemoryUsage([ max_memory |-> max_memory,
                                  avg_memory |-> Mean(Unwrap(memory_usage)) ]) >>
        ELSE <<>>
  IN  IF ~AllNumbers(cpu_usage) \/ ~AllNumbers(memory_usage)
      THEN Raise                         \* sum(cpu_usage): TypeError
      ELSE Ok(cpu \o memory)

(* the body of the scan loop with  len(high_vulns) >= 5 *)
scan_issues_from_five(scan) ==
  LET vulnerabilities == Get(scan, "vulnerabilities", <<>>)
      critical_vulns == SelectSeq(vulnerabilities, LAMBDA v : Has(v, "severity", "critical"))
      high_vulns == SelectSeq(vulnerabilities, LAMBDA v : Has(v, "severity", "high"))
      critical ==
        IF critical_vulns # <<>>
        THEN << CriticalSecurityVulnerabilitiesDetected(
                  [ critical_count |-> Len(critical_vulns),
                    vulnerabilities |-> critical_vulns ]) >>
        ELSE <<>>
      high ==
        IF high_vulns # <<>> /\ Len(high_vulns) >= 5
        THEN << MultipleHighSeverityVulnerabilities([ high_count |-> Len(high_vulns) ]) >>
        ELSE <<>>
  IN  critical \o high

scan_issues(scan) ==
  LET vulnerabilities == Get(scan, "vulnerabilities", <<>>)
      critical_vulns == SelectSeq(vulnerabilities, LAMBDA v : Has(v, "severity", "critical"))
      high_vulns == SelectSeq(vulnerabilities, LAMBDA v : Has(v, "severity", "high"))
      critical ==
        IF critical_vulns # <<>>
        THEN << CriticalSecurityVulnerabilitiesDetected(
                  [ critical_count |-> Len(critical_vulns),
                    vulnerabilities |-> critical_vulns ]) >>
        ELSE <<>>
      high ==
        IF high_vulns # <<>> /\ Len(high_vulns) > 5
        THEN << MultipleHighSeverityVulnerabilities([ high_count |-> Len(high_vulns) ]) >>
        ELSE <<>>
  IN  critical \o high

RECURSIVE scans_issues(_)
scans_issues(scans) ==
  IF scans = <<>> THEN <<>> ELSE scan_issues(scans[1]) \o scans_issues(Tail(scans))

analyze_security(security_scans) == Ok(scans_issues(security_scans))

(* _analyze_kubernetes appending every short deployment to underscaled *)
analyze_kubernetes_without_else(k8s_data) ==
  IF k8s_data = EmptyDict THEN Ok(<<>>)
  ELSE
    LET pods == Get(k8s_data, "pods", <<>>)
        failed_pods ==
          SelectSeq(pods, LAMBDA p : "status" \in DOMAIN p
                             /\ p.status \in {"CrashLoopBackOff", "Error", "Failed"})
        pending_pods == SelectSeq(pods, LAMBDA p : Has(p, "status", "Pending"))
        pod_failures ==
          IF failed_pods # <<>>
          THEN << KubernetesPodFailures(
                    [ failed_pods |-> Values(SubSeq(failed_pods, 1, Min(5, Len(failed_pods))),
                                             "name", ""),
                      failed_count |-> Len(failed_pods) ]) >>
          ELSE <<>>
        pods_pending ==
          IF Len(pending_pods) > 3
          THEN << MultiplePodsStuckinPendingState([ pending_count |-> Len(pending_pods) ]) >>
          ELSE <<>>
        nodes == Get(k8s_data, "nodes", <<>>)
        unhealthy_nodes == SelectSeq(nodes, LAMBDA n : ~Has(n, "status", "Ready"))
        nodes_unhealthy ==
          IF unhealthy_nodes # <<>>
          THEN << UnhealthyKubernetesNodes(
                    [ unhealthy_nodes |-> Values(unhealthy_nodes, "name", ""),
                      unhealthy_count |-> Len(unhealthy_nodes),
                      total_nodes |-> Len(nodes) ]) >>
          ELSE <<>>
        deployments == Get(k8s_data, "deployments", <<>>)
        Short(d) == Get(d, "desired_replicas", 0) > 0
                      /\ Get(d, "available_replicas", 0) < Get(d, "desired_replicas", 0)
        failed_deployments ==
          Values(SelectSeq(deployments,
                           LAMBDA d : Short(d) /\ Get(d, "available_replicas", 0) = 0),
                 "name", "")
        underscaled ==
          Values(SelectSeq(deployments,
                           LAMBDA d : Short(d)),
                 "name", "")
        zero_availability ==
          IF failed_deployments # <<>>
          THEN << KubernetesDeploymentswithZeroAvailability(
                    [ failed_deployments |-> failed_deployments ]) >>
          ELSE <<>>
        under_scaled ==
          IF underscaled # <<>>
          THEN << UnderScaledKubernetesDeployments(
                    [ underscaled_deployments |-> underscaled ]) >>
          ELSE <<>>
        resource_usage == Get(k8s_data, "resource_usage", EmptyDict)
        cpu_usage_pct == Get(resource_usage, "cpu_usage_percent", 0)
        memory_usage_pct == Get(resource_usage, "memory_usage_percent", 0)
        cluster_cpu ==
          IF resource_usage # EmptyDict /\ cpu_usage_pct > 85
          THEN << HighKubernetesClusterCPUUsage([ cpu_usage_percent |-> cpu_usage_pct ]) >>
          ELSE <<>>
        cluster_memory ==
          IF resource_usage # EmptyDict /\ memory_usage_pct > 85
          THEN << HighKubernetesClusterMemoryUsage(
                    [ memory_usage_percent |-> memory_usage_pct ]) >>
          ELSE <<>>
        pvcs == Get(k8s_data, "pvcs", <<>>)
        pending_pvcs == SelectSeq(pvcs, LAMBDA p : Has(p, "status", "Pending"))
        pvcs_pending ==
          IF pending_pvcs # <<>>
          THEN << PendingPersistentVolumeClaims(
                    [ pending_pvcs |-> Values(pending_pvcs, "name", "") ]) >>
          ELSE <<>>
        service_mesh == Get(k8s_data, "service_mesh", EmptyDict)
        error_rate == Get(service_mesh, "error_rate", 0)      \* in thousandths
        mesh_errors ==
          IF service_mesh # EmptyDict /\ error_rate > 50
          THEN << HighServiceMeshErrorRate([ error_rate |-> error_rate ]) >>
          ELSE <<>>
    IN  Ok(pod_failures \o pods_pending \o nodes_unhealthy \o zero_availability
             \o under_scaled \o cluster_cpu \o cluster_memory \o pvcs_pending
             \o mesh_errors)

analyze_kubernetes(k8s_data) ==
  IF k8s_data = EmptyDict THEN Ok(<<>>)
  ELSE
    LET pods == Get(k8s_data, "pods", <<>>)
        failed_pods ==
          SelectSeq(pods, LAMBDA p : "status" \in DOMAIN p
                             /\ p.status \in {"CrashLoopBackOff", "Error", "Failed"})
        pending_pods == SelectSeq(pods, LAMBDA p : Has(p, "status", "Pending"))
        pod_failures ==
          IF failed_pods # <<>>
          THEN << KubernetesPodFailures(
                    [ failed_pods |-> Values(SubSeq(failed_pods, 1, Min(5, Len(failed_pods))),
                                             "name", ""),
                      failed_count |-> Len(failed_pods) ]) >>
          ELSE <<>>
        pods_pending ==
          IF Len(pending_pods) > 3
          THEN << MultiplePodsStuckinPendingState([ pending_count |-> Len(pending_pods) ]) >>
          ELSE <<>>
        nodes == Get(k8s_data, "nodes", <<>>)
        unhealthy_nodes == SelectSeq(nodes, LAMBDA n : ~Has(n, "status", "Ready"))
        nodes_unhealthy ==
          IF unhealthy_nodes # <<>>
          THEN << UnhealthyKubernetesNodes(
                    [ unhealthy_nodes |-> Values(unhealthy_nodes, "name", ""),
                      unhealthy_count |-> Len(unhealthy_nodes),
                      total_nodes |-> Len(nodes) ]) >>
          ELSE <<>>
        deployments == Get(k8s_data, "deployments", <<>>)
        Short(d) == Get(d, "desired_replicas", 0) > 0
                      /\ Get(d, "available_replicas", 0) < Get(d, "desired_replicas", 0)
        failed_deployments ==
          Values(SelectSeq(deployments,
                           LAMBDA d : Short(d) /\ Get(d, "available_replicas", 0) = 0),
                 "name", "")
        underscaled ==
          Values(SelectSeq(deployments,
                           LAMBDA d : Short(d) /\ Get(d, "available_replicas", 0) # 0),
                 "name", "")
        zero_availability ==
          IF failed_deployments # <<>>
          THEN << KubernetesDeploymentswithZeroAvailability(
                    [ failed_deployments |-> failed_deployments ]) >>
          ELSE <<>>
        under_scaled ==
          IF underscaled # <<>>
          THEN << UnderScaledKubernetesDeployments(
                    [ underscaled_deployments |-> underscaled ]) >>
          ELSE <<>>
        resource_usage == Get(k8s_data, "resource_usage", EmptyDict)
        cpu_usage_pct == Get(resource_usage, "cpu_usage_percent", 0)
        memory_usage_pct == Get(resource_usage, "memory_usage_percent", 0)
        cluster_cpu ==
          IF resource_usage # EmptyDict /\ cpu_usage_pct > 85
          THEN << HighKubernetesClusterCPUUsage([ cpu_usage_percent |-> cpu_usage_pct ]) >>
          ELSE <<>>
        cluster_memory ==
          IF resource_usage # EmptyDict /\ memory_usage_pct > 85
          THEN << HighKubernetesClusterMemoryUsage(
                    [ memory_usage_percent |-> memory_usage_pct ]) >>
          ELSE <<>>
        pvcs == Get(k8s_data, "pvcs", <<>>)
        pending_pvcs == SelectSeq(pvcs, LAMBDA p : Has(p, "status", "Pending"))
        pvcs_pending ==
          IF pending_pvcs # <<>>
          THEN << PendingPersistentVolumeClaims(
                    [ pending_pvcs |-> Values(pending_pvcs, "name", "") ]) >>
          ELSE <<>>
        service_mesh == Get(k8s_data, "service_mesh", EmptyDict)
        error_rate == Get(service_mesh, "error_rate", 0)      \* in thousandths
        mesh_errors ==
          IF service_mesh # EmptyDict /\ error_rate > 50
          THEN << HighServiceMeshErrorRate([ error_rate |-> error_rate ]) >>
          ELSE <<>>
    IN  Ok(pod_failures \o pods_pending \o nodes_unhealthy \o zero_availability
             \o under_scaled \o cluster_cpu \o cluster_memory \o pvcs_pending
             \o mesh_errors)

----------------------------------------------------------------------------
(* src/src/agents/mlops_agent.py                                           *)
(* accuracy, f1_score, gpu utilisation, drift, quality, missing-value and  *)
(* error rates are in thousandths; durations in seconds; latency in ms.    *)

metric_thresholds ==
  [ model_performance |-> [ accuracy_drop |-> 50, f1_score_threshold |-> 700 ],
    training |-> [ max_duration |-> 3600 * 4, gpu_utilization_min |-> 600 ],
    data |-> [ drift_threshold |-> 100, quality_threshold |-> 950,
               missing_values_threshold |-> 50 ],
    inference |-> [ latency_p95 |-> 100, throughput_min |-> 100,
                    error_rate_max |-> 10 ] ]

(* older_accuracy - recent_accuracy in double precision, tabulated for the  *)
(* windows of the model: whether the computed difference is below (-1),    *)
(* equal to (0) or above (1) the double nearest to the exact difference of *)
(* the two means; w is << accuracies of older_metrics, of recent_metrics >> *)
accuracy_drop_rounding ==
  [ w \in {
      <<<<800>>, <<800, 800, 800, 800, 850>>>>, <<<<800>>, <<800, 800, 800, 800, 900>>>>,
      <<<<800>>, <<800, 800, 800, 850, 850>>>>, <<<<800>>, <<800, 800, 800, 850, 900>>>>,
      <<<<800>>, <<800, 800, 800, 900, 900>>>>, <<<<800, 800>>, <<800, 800, 800, 800, 850>>>>,
      <<<<800, 800>>, <<800, 800, 800, 800, 900>>>>, <<<<800, 800>>, <<800, 800, 800, 850, 850>>>>,
      <<<<800, 800>>, <<800, 800, 800, 850, 900>>>>, <<<<800, 800>>, <<800, 800, 800, 900, 900>>>>,
      <<<<800, 800, 800>>, <<800, 800, 800, 850, 850>>>>,
      <<<<800, 800, 800>>, <<800, 800, 800, 850, 900>>>>,
      <<<<800, 800, 800>>, <<800, 800, 800, 900, 900>>>>,
      <<<<800, 800, 800, 850>>, <<850, 900, 900, 900, 900>>>>,
      <<<<800, 800, 800, 850>>, <<900, 900, 900, 900, 900>>>>,
      <<<<800, 800, 850>>, <<850, 850, 850, 900, 900>>>>,
      <<<<800, 800, 850>>, <<850, 850, 900, 900, 900>>>>,
      <<<<800, 800, 850>>, <<850, 900, 900, 900, 900>>>>,
      <<<<800, 800, 850>>, <<900, 900, 900, 900, 900>>>>,
      <<<<800, 800, 850, 850>>, <<850, 850, 850, 850, 900>>>>,
      <<<<800, 800, 850, 850>>, <<850, 850, 850, 900, 900>>>>,
      <<<<800, 800, 850, 850>>, <<850, 850, 900, 900, 900>>>>,
      <<<<800, 800, 850, 850>>, <<850, 900, 900, 900, 900>>>>,
      <<<<800, 800, 850, 850>>, <<900, 900, 900, 900, 900>>>>,
      <<<<800, 800, 850, 850, 850>>, <<850, 850, 850, 900, 900>>>>,
      <<<<800, 800, 850, 850, 850>>, <<850, 850, 900, 900, 900>>>>,
      <<<<800, 800, 850, 850, 850>>, <<850, 900, 900, 900, 900>>>>,
      <<<<800, 800, 850, 850, 850>>, <<900, 900, 900, 900, 900>>>>,
      <<<<800, 800, 850, 850, 900>>, <<900, 900, 900, 900, 900>>>>,
      <<<<800, 850>>, <<850, 850, 850, 850, 850>>>>, <<<<800, 850>>, <<850, 850, 850, 850, 900>>>>,
      <<<<800, 850>>, <<850, 850, 850, 900, 900>>>>, <<<<800, 850>>, <<850, 850, 900, 900, 900>>>>,
      <<<<800, 850>>, <<850, 900, 900, 900, 900>>>>, <<<<800, 850>>, <<900, 900, 900, 900, 900>>>>,
      <<<<800, 850, 850, 850, 850>>, <<850, 850, 900, 900, 900>>>>,
      <<<<800, 850, 850, 850, 850>>, <<850, 900, 900, 900, 900>>>>,
      <<<<800, 850, 850, 850, 850>>, <<900, 900, 900, 900, 900>>>>,
      <<<<800, 850, 850, 850, 900>>, <<900, 900, 900, 900, 900>>>>,
      <<<<800, 850, 850, 900>>, <<900, 900, 900, 900, 900>>>>,
      <<<<800, 850, 900>>, <<900, 900, 900, 900, 900>>>>, <<<<850>>, <<800, 800, 800, 800, 800>>>>,
      <<<<850>>, <<850, 800, 800, 800, 800>>>>, <<<<850>>, <<850, 850, 800, 800, 800>>>>,
      <<<<850>>, <<850, 850, 850, 850, 900>>>>, <<<<850>>, <<850, 850, 850, 900, 900>>>>,
      <<<<850>>, <<850, 850, 900, 900, 900>>>>, <<<<850>>, <<850, 900, 900, 900, 900>>>>,
      <<<<850>>, <<900, 900, 900, 900, 900>>>>, <<<<850, 800>>, <<800, 800, 800, 800, 800>>>>,
      <<<<850, 850>>, <<800, 800, 800, 800, 800>>>>, <<<<850, 850>>, <<850, 800, 800, 800, 800>>>>,
      <<<<850, 850>>, <<850, 850, 800, 800, 800>>>>, <<<<850, 850>>, <<850, 850, 850, 850, 900>>>>,
      <<<<850, 850>>, <<850, 850, 850, 900, 900>>>>, <<<<850, 850>>, <<850, 850, 900, 900, 900>>>>,
      <<<<850, 850>>, <<850, 900, 900, 900, 900>>>>, <<<<850, 850>>, <<900, 900, 900, 900, 900>>>>,
      <<<<850, 850, 800>>, <<800, 800, 800, 800, 800>>>>,
      <<<<850, 850, 850>>, <<800, 800, 800, 800, 800>>>>,
      <<<<850, 850, 850>>, <<850, 800, 800, 800, 800>>>>,
      <<<<850, 850, 850>>, <<850, 850, 800, 800, 800>>>>,
      <<<<850, 850, 850>>, <<850, 850, 850, 900, 900>>>>,
      <<<<850, 850, 850>>, <<850, 850, 900, 900, 900>>>>,
      <<<<850, 850, 850>>, <<850, 900, 900, 900, 900>>>>,
      <<<<850, 850, 850>>, <<900, 900, 900, 900, 900>>>>,
      <<<<850, 850, 850, 800>>, <<800, 800, 800, 800, 800>>>>,
      <<<<850, 850, 850, 850>>, <<800, 800, 800, 800, 800>>>>,
      <<<<850, 850, 850, 850>>, <<850, 800, 800, 800, 800>>>>,
      <<<<850, 850, 850, 850>>, <<850, 850, 800, 800, 800>>>>,
      <<<<850, 850, 850, 850>>, <<850, 850, 900, 900, 900>>>>,
      <<<<850, 850, 850, 850>>, <<850, 900, 900, 900, 900>>>>,
      <<<<850, 850, 850, 850>>, <<900, 900, 900, 900, 900>>>>,
      <<<<850, 850, 850, 850, 800>>, <<800, 800, 800, 800, 800>>>>,
      <<<<850, 850, 850, 850, 850>>, <<800, 800, 800, 800, 800>>>>,
      <<<<850, 850, 850, 850, 850>>, <<850, 800, 800, 800, 800>>>>,
      <<<<850, 850, 850, 850, 850>>, <<850, 900, 900, 900, 900>>>>,
      <<<<850, 850, 850, 850, 850>>, <<900, 900, 900, 900, 900>>>>,
      <<<<850, 850, 850, 850, 900>>, <<900, 900, 900, 900, 900>>>>,
      <<<<850, 900>>, <<900, 900, 900, 900, 900>>>>, <<<<900>>, <<800, 800, 800, 800, 800>>>>,
      <<<<900>>, <<850, 800, 800, 800, 800>>>>, <<<<900>>, <<850, 850, 800, 800, 800>>>>,
      <<<<900>>, <<900, 800, 800, 800, 800>>>>, <<<<900>>, <<900, 850, 800, 800, 800>>>>,
      <<<<900>>, <<900, 900, 800, 800, 800>>>>, <<<<900, 850>>, <<800, 800, 800, 800, 800>>>>,
      <<<<900, 850>>, <<850, 800, 800, 800, 800>>>>, <<<<900, 850>>, <<850, 850, 800, 800, 800>>>>,
      <<<<900, 850, 800>>, <<800, 800, 800, 800, 800>>>>,
      <<<<900, 850, 850>>, <<800, 800, 800, 800, 800>>>>,
      <<<<900, 850, 850>>, <<850, 800, 800, 800, 800>>>>,
      <<<<900, 850, 850>>, <<850, 850, 800, 800, 800>>>>,
      <<<<900, 850, 850, 800>>, <<800, 800, 800, 800, 800>>>>,
      <<<<900, 850, 850, 850>>, <<850, 800, 800, 800, 800>>>>,
      <<<<900, 850, 850, 850>>, <<850, 850, 800, 800, 800>>>>,
      <<<<900, 850, 850, 850, 800>>, <<800, 800, 800, 800, 800>>>>,
      <<<<900, 850, 850, 850, 850>>, <<800, 800, 800, 800, 800>>>>,
      <<<<900, 850, 850, 850, 850>>, <<850, 800, 800, 800, 800>>>>,
      <<<<900, 850, 850, 850, 850>>, <<850, 850, 800, 800, 800>>>>,
      <<<<900, 900>>, <<800, 800, 800, 800, 800>>>>, <<<<900, 900>>, <<850, 800, 800, 800, 800>>>>,
      <<<<900, 900>>, <<850, 850, 800, 800, 800>>>>, <<<<900, 900>>, <<900, 800, 800, 800, 800>>>>,
      <<<<900, 900>>, <<900, 850, 800, 800, 800>>>>, <<<<900, 900>>, <<900, 900, 800, 800, 800>>>>,
      <<<<900, 900, 800>>, <<800, 800, 800, 800, 800>>>>,
      <<<<900, 900, 850>>, <<800, 800, 800, 800, 800>>>>,
      <<<<900, 900, 850>>, <<850, 800, 800, 800, 800>>>>,
      <<<<900, 900, 850>>, <<850, 850, 800, 800, 800>>>>,
      <<<<900, 900, 850>>, <<850, 850, 850, 850, 850>>>>,
      <<<<900, 900, 850, 850>>, <<800, 800, 800, 800, 800>>>>,
      <<<<900, 900, 850, 850>>, <<850, 800, 800, 800, 800>>>>,
      <<<<900, 900, 850, 850>>, <<850, 850, 800, 800, 800>>>>,
      <<<<900, 900, 850, 850, 800>>, <<800, 800, 800, 800, 800>>>>,
      <<<<900, 900, 850, 850, 850>>, <<800, 800, 800, 800, 800>>>>,
      <<<<900, 900, 850, 850, 850>>, <<850, 800, 800, 800, 800>>>>,
      <<<<900, 900, 850, 850, 850>>, <<850, 850, 800, 800, 800>>>>,
      <<<<900, 900, 900>>, <<800, 800, 800, 800, 800>>>>,
      <<<<900, 900, 900>>, <<850, 800, 800, 800, 800>>>>,
      <<<<900, 900, 900>>, <<850, 850, 800, 800, 800>>>>,
      <<<<900, 900, 900>>, <<900, 800, 800, 800, 800>>>>,
      <<<<900, 900, 900>>, <<900, 850, 800, 800, 800>>>>,
      <<<<900, 900, 900>>, <<900, 900, 800, 800, 800>>>>,
      <<<<900, 900, 900, 800>>, <<800, 800, 800, 800, 800>>>>,
      <<<<900, 900, 900, 850>>, <<800, 800, 800, 800, 800>>>>,
      <<<<900, 900, 900, 850>>, <<850, 800, 800, 800, 800>>>>,
      <<<<900, 900, 900, 850>>, <<850, 850, 800, 800, 800>>>>,
      <<<<900, 900, 900, 850>>, <<850, 850, 850, 800, 800>>>>,
      <<<<900, 900, 900, 850>>, <<850, 850, 850, 850, 800>>>>,
      <<<<900, 900, 900, 850>>, <<850, 850, 850, 850, 850>>>>,
      <<<<900, 900, 900, 850, 800>>, <<800, 800, 800, 800, 800>>>>,
      <<<<900, 900, 900, 850, 850>>, <<800, 800, 800, 800, 800>>>>,
      <<<<900, 900, 900, 850, 850>>, <<850, 800, 800, 800, 800>>>>,
      <<<<900, 900, 900, 850, 850>>, <<850, 850, 800, 800, 800>>>>,
      <<<<900, 900, 900, 900>>, <<800, 800, 800, 800, 800>>>>,
      <<<<900, 900, 900, 900>>, <<850, 800, 800, 800, 800>>>>,
      <<<<900, 900, 900, 900>>, <<850, 850, 800, 800, 800>>>>,
      <<<<900, 900, 900, 900>>, <<900, 800, 800, 800, 800>>>>,
      <<<<900, 900, 900, 900>>, <<900, 850, 800, 800, 800>>>>,
      <<<<900, 900, 900, 900>>, <<900, 900, 800, 800, 800>>>>,
      <<<<900, 900, 900, 900, 800>>, <<800, 800, 800, 800, 800>>>>,
      <<<<900, 900, 900, 900, 850>>, <<800, 800, 800, 800, 800>>>>,
      <<<<900, 900, 900, 900, 850>>, <<850, 800, 800, 800, 800>>>>,
      <<<<900, 900, 900, 900, 850>>, <<850, 850, 800, 800, 800>>>>,
      <<<<900, 900, 900, 900, 900>>, <<800, 800, 800, 800, 800>>>>,
      <<<<900, 900, 900, 900, 900>>, <<850, 800, 800, 800, 800>>>>,
      <<<<900, 900, 900, 900, 900>>, <<850, 850, 800, 800, 800>>>>,
      <<<<900, 900, 900, 900, 900>>, <<900, 800, 800, 800, 800>>>>,
      <<<<900, 900, 900, 900, 900>>, <<900, 850, 800, 800, 800>>>> } |-> -1 ]
  @@ [ w \in {
      <<<<800>>, <<800, 800, 800, 800, 800>>>>,
      <<<<800, 800, 800, 850>>, <<850, 850, 900, 900, 900>>>>,
      <<<<800, 800, 850>>, <<850, 850, 850, 850, 900>>>>,
      <<<<800, 800, 850, 900>>, <<900, 900, 900, 900, 900>>>>,
      <<<<800, 850, 850, 850>>, <<900, 900, 900, 900, 900>>>>,
      <<<<850>>, <<850, 850, 850, 850, 850>>>>, <<<<900>>, <<900, 900, 900, 900, 900>>>>,
      <<<<900, 850, 850, 850>>, <<800, 800, 800, 800, 800>>>>,
      <<<<900, 900, 850>>, <<850, 850, 850, 850, 800>>>>,
      <<<<900, 900, 850, 800>>, <<800, 800, 800, 800, 800>>>> } |-> 0 ]
  @@ [ w \in {
      <<<<800>>, <<800, 800, 850, 850, 850>>>>, <<<<800>>, <<800, 800, 850, 850, 900>>>>,
      <<<<800>>, <<800, 800, 850, 900, 900>>>>, <<<<800>>, <<800, 800, 900, 900, 900>>>>,
      <<<<800>>, <<800, 850, 850, 850, 850>>>>, <<<<800>>, <<800, 850, 850, 850, 900>>>>,
      <<<<800>>, <<800, 850, 850, 900, 900>>>>, <<<<800>>, <<800, 850, 900, 900, 900>>>>,
      <<<<800>>, <<800, 900, 900, 900, 900>>>>, <<<<800>>, <<850, 850, 850, 850, 850>>>>,
      <<<<800>>, <<850, 850, 850, 850, 900>>>>, <<<<800>>, <<850, 850, 850, 900, 900>>>>,
      <<<<800>>, <<850, 850, 900, 900, 900>>>>, <<<<800>>, <<850, 900, 900, 900, 900>>>>,
      <<<<800>>, <<900, 900, 900, 900, 900>>>>, <<<<800, 800>>, <<800, 800, 850, 850, 850>>>>,
      <<<<800, 800>>, <<800, 800, 850, 850, 900>>>>, <<<<800, 800>>, <<800, 800, 850, 900, 900>>>>,
      <<<<800, 800>>, <<800, 800, 900, 900, 900>>>>, <<<<800, 800>>, <<800, 850, 850, 850, 850>>>>,
      <<<<800, 800>>, <<800, 850, 850, 850, 900>>>>, <<<<800, 800>>, <<800, 850, 850, 900, 900>>>>,
      <<<<800, 800>>, <<800, 850, 900, 900, 900>>>>, <<<<800, 800>>, <<800, 900, 900, 900, 900>>>>,
      <<<<800, 800>>, <<850, 850, 850, 850, 850>>>>, <<<<800, 800>>, <<850, 850, 850, 850, 900>>>>,
      <<<<800, 800>>, <<850, 850, 850, 900, 900>>>>, <<<<800, 800>>, <<850, 850, 900, 900, 900>>>>,
      <<<<800, 800>>, <<850, 900, 900, 900, 900>>>>, <<<<800, 800>>, <<900, 900, 900, 900, 900>>>>,
      <<<<800, 800, 800>>, <<800, 800, 850, 850, 850>>>>,
      <<<<800, 800, 800>>, <<800, 800, 850, 850, 900>>>>,
      <<<<800, 800, 800>>, <<800, 800, 850, 900, 900>>>>,
      <<<<800, 800, 800>>, <<800, 800, 900, 900, 900>>>>,
      <<<<800, 800, 800>>, <<800, 850, 850, 850, 850>>>>,
      <<<<800, 800, 800>>, <<800, 850, 850, 850, 900>>>>,
      <<<<800, 800, 800>>, <<800, 850, 850, 900, 900>>>>,
      <<<<800, 800, 800>>, <<800, 850, 900, 900, 900>>>>,
      <<<<800, 800, 800>>, <<800, 900, 900, 900, 900>>>>,
      <<<<800, 800, 800>>, <<850, 850, 850, 850, 850>>>>,
      <<<<800, 800, 800>>, <<850, 850, 850, 850, 900>>>>,
      <<<<800, 800, 800>>, <<850, 850, 850, 900, 900>>>>,
      <<<<800, 800, 800>>, <<850, 850, 900, 900, 900>>>>,
      <<<<800, 800, 800>>, <<850, 900, 900, 900, 900>>>>,
      <<<<800, 800, 800>>, <<900, 900, 900, 900, 900>>>>,
      <<<<800, 800, 800, 800>>, <<800, 800, 850, 850, 850>>>>,
      <<<<800, 800, 800, 800>>, <<800, 800, 850, 850, 900>>>>,
      <<<<800, 800, 800, 800>>, <<800, 800, 850, 900, 900>>>>,
      <<<<800, 800, 800, 800>>, <<800, 800, 900, 900, 900>>>>,
      <<<<800, 800, 800, 800>>, <<800, 850, 850, 850, 850>>>>,
      <<<<800, 800, 800, 800>>, <<800, 850, 850, 850, 900>>>>,
      <<<<800, 800, 800, 800>>, <<800, 850, 850, 900, 900>>>>,
      <<<<800, 800, 800, 800>>, <<800, 850, 900, 900, 900>>>>,
      <<<<800, 800, 800, 800>>, <<800, 900, 900, 900, 900>>>>,
      <<<<800, 800, 800, 800>>, <<850, 850, 850, 850, 850>>>>,
      <<<<800, 800, 800, 800>>, <<850, 850, 850, 850, 900>>>>,
      <<<<800, 800, 800, 800>>, <<850, 850, 850, 900, 900>>>>,
      <<<<800, 800, 800, 800>>, <<850, 850, 900, 900, 900>>>>,
      <<<<800, 800, 800, 800>>, <<850, 900, 900, 900, 900>>>>,
      <<<<800, 800, 800, 800>>, <<900, 900, 900, 900, 900>>>>,
      <<<<800, 800, 800, 800, 800>>, <<800, 850, 850, 850, 850>>>>,
      <<<<800, 800, 800, 800, 800>>, <<800, 850, 850, 850, 900>>>>,
      <<<<800, 800, 800, 800, 800>>, <<800, 850, 850, 900, 900>>>>,
      <<<<800, 800, 800, 800, 800>>, <<800, 850, 900, 900, 900>>>>,
      <<<<800, 800, 800, 800, 800>>, <<800, 900, 900, 900, 900>>>>,
      <<<<800, 800, 800, 800, 800>>, <<850, 850, 850, 850, 850>>>>,
      <<<<800, 800, 800, 800, 800>>, <<850, 850, 850, 850, 900>>>>,
      <<<<800, 800, 800, 800, 800>>, <<850, 850, 850, 900, 900>>>>,
      <<<<800, 800, 800, 800, 800>>, <<850, 850, 900, 900, 900>>>>,
      <<<<800, 800, 800, 800, 800>>, <<850, 900, 900, 900, 900>>>>,
      <<<<800, 800, 800, 800, 800>>, <<900, 900, 900, 900, 900>>>>,
      <<<<800, 800, 800, 800, 850>>, <<850, 850, 850, 850, 850>>>>,
      <<<<800, 800, 800, 800, 850>>, <<850, 850, 850, 850, 900>>>>,
      <<<<800, 800, 800, 800, 850>>, <<850, 850, 850, 900, 900>>>>,
      <<<<800, 800, 800, 800, 850>>, <<850, 850, 900, 900, 900>>>>,
      <<<<800, 800, 800, 800, 850>>, <<850, 900, 900, 900, 900>>>>,
      <<<<800, 800, 800, 800, 850>>, <<900, 900, 900, 900, 900>>>>,
      <<<<800, 800, 800, 800, 900>>, <<900, 900, 900, 900, 900>>>>,
      <<<<800, 800, 800, 850>>, <<850, 850, 850, 850, 850>>>>,
      <<<<800, 800, 800, 850>>, <<850, 850, 850, 850, 900>>>>,
      <<<<800, 800, 800, 850>>, <<850, 850, 850, 900, 900>>>>,
      <<<<800, 800, 800, 850, 850>>, <<850, 850, 850, 850, 900>>>>,
      <<<<800, 800, 800, 850, 850>>, <<850, 850, 850, 900, 900>>>>,
      <<<<800, 800, 800, 850, 850>>, <<850, 850, 900, 900, 900>>>>,
      <<<<800, 800, 800, 850, 850>>, <<850, 900, 900, 900, 900>>>>,
      <<<<800, 800, 800, 850, 850>>, <<900, 900, 900, 900, 900>>>>,
      <<<<800, 800, 800, 850, 900>>, <<900, 900, 900, 900, 900>>>>,
      <<<<800, 800, 800, 900>>, <<900, 900, 900, 900, 900>>>>,
      <<<<800, 800, 850>>, <<850, 850, 850, 850, 850>>>>,
      <<<<800, 800, 900>>, <<900, 900, 900, 900, 900>>>>,
      <<<<800, 850, 850>>, <<850, 850, 850, 850, 900>>>>,
      <<<<800, 850, 850>>, <<850, 850, 850, 900, 900>>>>,
      <<<<800, 850, 850>>, <<850, 850, 900, 900, 900>>>>,
      <<<<800, 850, 850>>, <<850, 900, 900, 900, 900>>>>,
      <<<<800, 850, 850>>, <<900, 900, 900, 900, 900>>>>,
      <<<<800, 850, 850, 850>>, <<850, 850, 850, 900, 900>>>>,
      <<<<800, 850, 850, 850>>, <<850, 850, 900, 900, 900>>>>,
      <<<<800, 850, 850, 850>>, <<850, 900, 900, 900, 900>>>>,
      <<<<800, 900>>, <<900, 900, 900, 900, 900>>>>, <<<<850>>, <<850, 850, 850, 800, 800>>>>,
      <<<<850>>, <<850, 850, 850, 850, 800>>>>, <<<<850, 850>>, <<850, 850, 850, 800, 800>>>>,
      <<<<850, 850>>, <<850, 850, 850, 850, 800>>>>,
      <<<<850, 850, 850>>, <<850, 850, 850, 800, 800>>>>,
      <<<<850, 850, 850, 900>>, <<900, 900, 900, 900, 900>>>>,
      <<<<850, 850, 900>>, <<900, 900, 900, 900, 900>>>>, <<<<900>>, <<850, 850, 850, 800, 800>>>>,
      <<<<900>>, <<850, 850, 850, 850, 800>>>>, <<<<900>>, <<850, 850, 850, 850, 850>>>>,
      <<<<900>>, <<900, 850, 850, 800, 800>>>>, <<<<900>>, <<900, 850, 850, 850, 800>>>>,
      <<<<900>>, <<900, 850, 850, 850, 850>>>>, <<<<900>>, <<900, 900, 850, 800, 800>>>>,
      <<<<900>>, <<900, 900, 850, 850, 800>>>>, <<<<900>>, <<900, 900, 850, 850, 850>>>>,
      <<<<900>>, <<900, 900, 900, 800, 800>>>>, <<<<900>>, <<900, 900, 900, 850, 800>>>>,
      <<<<900>>, <<900, 900, 900, 850, 850>>>>, <<<<900>>, <<900, 900, 900, 900, 800>>>>,
      <<<<900>>, <<900, 900, 900, 900, 850>>>>, <<<<900, 800>>, <<800, 800, 800, 800, 800>>>>,
      <<<<900, 850>>, <<850, 850, 850, 800, 800>>>>, <<<<900, 850>>, <<850, 850, 850, 850, 800>>>>,
      <<<<900, 850>>, <<850, 850, 850, 850, 850>>>>,
      <<<<900, 850, 850>>, <<850, 850, 850, 800, 800>>>>,
      <<<<900, 850, 850>>, <<850, 850, 850, 850, 800>>>>,
      <<<<900, 850, 850, 850>>, <<850, 850, 850, 800, 800>>>>,
      <<<<900, 900>>, <<850, 850, 850, 800, 800>>>>, <<<<900, 900>>, <<850, 850, 850, 850, 800>>>>,
      <<<<900, 900>>, <<850, 850, 850, 850, 850>>>>, <<<<900, 900>>, <<900, 850, 850, 800, 800>>>>,
      <<<<900, 900>>, <<900, 850, 850, 850, 800>>>>, <<<<900, 900>>, <<900, 850, 850, 850, 850>>>>,
      <<<<900, 900>>, <<900, 900, 850, 800, 800>>>>, <<<<900, 900>>, <<900, 900, 850, 850, 800>>>>,
      <<<<900, 900>>, <<900, 900, 850, 850, 850>>>>, <<<<900, 900>>, <<900, 900, 900, 800, 800>>>>,
      <<<<900, 900>>, <<900, 900, 900, 850, 800>>>>, <<<<900, 900>>, <<900, 900, 900, 850, 850>>>>,
      <<<<900, 900>>, <<900, 900, 900, 900, 800>>>>, <<<<900, 900>>, <<900, 900, 900, 900, 850>>>>,
      <<<<900, 900, 850>>, <<850, 850, 850, 800, 800>>>>,
      <<<<900, 900, 850, 850>>, <<850, 850, 850, 800, 800>>>>,
      <<<<900, 900, 850, 850>>, <<850, 850, 850, 850, 800>>>>,
      <<<<900, 900, 850, 850, 850>>, <<850, 850, 850, 800, 800>>>>,
      <<<<900, 900, 900>>, <<850, 850, 850, 800, 800>>>>,
      <<<<900, 900, 900>>, <<850, 850, 850, 850, 800>>>>,
      <<<<900, 900, 900>>, <<850, 850, 850, 850, 850>>>>,
      <<<<900, 900, 900>>, <<900, 850, 850, 800, 800>>>>,
      <<<<900, 900, 900>>, <<900, 850, 850, 850, 800>>>>,
      <<<<900, 900, 900>>, <<900, 850, 850, 850, 850>>>>,
      <<<<900, 900, 900>>, <<900, 900, 850, 800, 800>>>>,
      <<<<900, 900, 900>>, <<900, 900, 850, 850, 800>>>>,
      <<<<900, 900, 900>>, <<900, 900, 850, 850, 850>>>>,
      <<<<900, 900, 900>>, <<900, 900, 900, 800, 800>>>>,
      <<<<900, 900, 900>>, <<900, 900, 900, 850, 800>>>>,
      <<<<900, 900, 900>>, <<900, 900, 900, 850, 850>>>>,
      <<<<900, 900, 900, 850, 850>>, <<850, 850, 850, 800, 800>>>>,
      <<<<900, 900, 900, 850, 850>>, <<850, 850, 850, 850, 800>>>>,
      <<<<900, 900, 900, 900>>, <<850, 850, 850, 800, 800>>>>,
      <<<<900, 900, 900, 900>>, <<850, 850, 850, 850, 800>>>>,
      <<<<900, 900, 900, 900>>, <<850, 850, 850, 850, 850>>>>,
      <<<<900, 900, 900, 900>>, <<900, 850, 850, 800, 800>>>>,
      <<<<900, 900, 900, 900>>, <<900, 850, 850, 850, 800>>>>,
      <<<<900, 900, 900, 900>>, <<900, 850, 850, 850, 850>>>>,
      <<<<900, 900, 900, 900>>, <<900, 900, 850, 800, 800>>>>,
      <<<<900, 900, 900, 900>>, <<900, 900, 850, 850, 800>>>>,
      <<<<900, 900, 900, 900>>, <<900, 900, 850, 850, 850>>>>,
      <<<<900, 900, 900, 900, 850>>, <<850, 850, 850, 800, 800>>>>,
      <<<<900, 900, 900, 900, 850>>, <<850, 850, 850, 850, 800>>>>,
      <<<<900, 900, 900, 900, 850>>, <<850, 850, 850, 850, 850>>>>,
      <<<<900, 900, 900, 900, 900>>, <<850, 850, 850, 800, 800>>>>,
      <<<<900, 900, 900, 900, 900>>, <<850, 850, 850, 850, 800>>>>,
      <<<<900, 900, 900, 900, 900>>, <<850, 850, 850, 850, 850>>>>,
      <<<<900, 900, 900, 900, 900>>, <<900, 850, 850, 800, 800>>>>,
      <<<<900, 900, 900, 900, 900>>, <<900, 850, 850, 850, 800>>>>,
      <<<<900, 900, 900, 900, 900>>, <<900, 850, 850, 850, 850>>>> } |-> 1 ]

analyze_model_performance(model_metrics) ==
  IF model_metrics = <<>> \/ Len(model_metrics) < 2 THEN Ok(<<>>)
  ELSE
    LET n == Len(model_metrics)
        sorted_metrics ==
          Sorted(model_metrics,
                 [i \in 1..n |-> << Get(model_metrics[i], "timestamp", 0), 0 >>],
                 FALSE)
        recent_metrics == SubSeq(sorted_metrics, Max(1, n - 4), n)
        older_metrics ==
          IF n >= 10 THEN SubSeq(sorted_metrics, n - 9, n - 5)
          ELSE SubSeq(sorted_metrics, 1, n - 5)
        recent_accuracy == Mean(Values(recent_metrics, "accuracy", 0))
        older_accuracy == Mean(Values(older_metrics, "accuracy", 0))
        exact_drop == RSub(older_accuracy, recent_accuracy)
        accuracy_drop ==
          [ num |-> exact_drop.num, den |-> exact_drop.den,
            rounding |-> accuracy_drop_rounding[<< Values(older_metrics, "accuracy", 0),
                                                   Values(recent_metrics, "accuracy", 0) >>] ]
        threshold == Ratio(metric_thresholds.model_performance.accuracy_drop, 1)
        degradation ==
          IF older_metrics # <<>> /\ recent_metrics # <<>>
               /\ (RLess(threshold, exact_drop)
                     \/ (exact_drop = threshold /\ accuracy_drop.rounding > 0))
          THEN << ModelPerformanceDegradationDetected(
                    [ recent_accuracy |-> recent_accuracy,
                      older_accuracy |-> older_accuracy,
                      drop |-> accuracy_drop ]) >>
          ELSE <<>>
        latest_metrics == sorted_metrics[n]
        accuracy == Get(latest_metrics, "accuracy", 0)
        f1_score == Get(latest_metrics, "f1_score", 0)
        low_f1 ==
          IF f1_score < metric_thresholds.model_performance.f1_score_threshold
          THEN << LowModelF1Score([ f1_score |-> f1_score, accuracy |-> accuracy ]) >>
          ELSE <<>>
    IN  Ok(degradation \o low_f1)

analyze_training(training_runs) ==
  IF training_runs = <<>> THEN Ok(<<>>)
  ELSE
    LET completed == SelectSeq(training_runs, LAMBDA r : Has(r, "status", "completed"))
        durations == Values(completed, "duration", 0)
        avg_duration == Mean(durations)
        long ==
          IF durations # <<>>
               /\ RLess(Ratio(metric_thresholds.training.max_duration, 1), avg_duration)
          THEN << LongTrainingTimes([ avg_duration |-> avg_duration,
                                      max_duration |-> MaxOf(durations) ]) >>
          ELSE <<>>
        with_gpu == SelectSeq(training_runs,
                              LAMBDA r : Get(r, "gpu_utilization", <<>>) # <<>>)
        gpu_utilizations == [ i \in 1..Len(with_gpu) |-> Mean(with_gpu[i].gpu_utilization) ]
        avg_gpu_util == RMean(gpu_utilizations)
        low_gpu ==
          IF gpu_utilizations # <<>>
               /\ RLess(avg_gpu_util, Ratio(metric_thresholds.training.gpu_utilization_min, 1))
          THEN << LowGPUUtilization([ avg_gpu_utilization |-> avg_gpu_util ]) >>
          ELSE <<>>
        failed_runs == SelectSeq(training_runs, LAMBDA r : Has(r, "status", "failed"))
        failure_rate == Ratio(Len(failed_runs), Len(training_runs))
        failing ==
          IF RLess(Ratio(1, 10), failure_rate)
          THEN << HighTrainingFailureRate([ failure_rate |-> failure_rate,
                                            failed_count |-> Len(failed_runs) ]) >>
          ELSE <<>>
    IN  Ok(long \o low_gpu \o failing)

analyze_data_quality(data_metrics) ==
  LET drift_score == Get(data_metrics, "drift_score", 0)
      quality_score == Get(data_metrics, "quality_score", 1000)
      missing_rate == Get(data_metrics, "missing_value_rate", 0)
      drift ==
        IF drift_score > metric_thresholds.data.drift_threshold
        THEN << DataDriftDetected([ drift_score |-> drift_score ]) >>
        ELSE <<>>
      quality ==
        IF quality_score < metric_thresholds.data.quality_threshold
        THEN << LowDataQuality([ quality_score |-> quality_score ]) >>
        ELSE <<>>
      missing ==
        IF missing_rate > metric_thresholds.data.missing_values_threshold
        THEN << HighMissingValueRate([ missing_rate |-> missing_rate ]) >>
        ELSE <<>>
  IN  Ok(drift \o quality \o missing)

analyze_inference(inference_metrics) ==
  LET latency == Get(inference_metrics, "latency_p95", Num(0))
      latency_p95 == latency.num
      throughput == Get(inference_metrics, "throughput", 0)
      error_rate == Get(inference_metrics, "error_rate", 0)
      slow_responses ==
        IF latency_p95 > metric_thresholds.inference.latency_p95
        THEN << HighInferenceLatency([ latency_p95 |-> latency_p95 ]) >>
        ELSE <<>>
      low_throughput ==
        IF throughput < metric_thresholds.inference.throughput_min
        THEN << LowInferenceThroughput([ throughput |-> throughput ]) >>
        ELSE <<>>
      errors ==
        IF error_rate > metric_thresholds.inference.error_rate_max
        THEN << HighInferenceErrorRate([ error_rate |-> error_rate ]) >>
        ELSE <<>>
  IN  IF ~IsNumber(latency)
      THEN Raise                         \* latency_p95 > 100: TypeError
      ELSE Ok(slow_responses \o low_throughput \o errors)

analyze_experiments(experiments) ==
  IF experiments = <<>> THEN Ok(<<>>)
  ELSE
    LET untagged == SelectSeq(experiments, LAMBDA e : Get(e, "tags", EmptyDict) = EmptyDict)
    IN  IF RLess(Ratio(3, 10), Ratio(Len(untagged), Len(experiments)))
        THEN Ok(<< PoorExperimentOrganization([ untagged_count |-> Len(untagged),
                                                total_count |-> Len(experiments) ]) >>)
        ELSE Ok(<<>>)

----------------------------------------------------------------------------
(* src/src/monitors/issue_detector.py *)

(* keyword in s *)
Contains(keyword, s) == keyword \in KeywordsIn[s]

(* keyword in s.lower() *)
InLower(keyword, s) == Contains(keyword, str_lower[s])

(* _detect_cascading_failures without the severity test on build issues *)
detect_cascading_failures_any_severity(list) ==
  LET build_failures == SelectSeq(list, LAMBDA i : InLower("build", i.title))
      deployment_failures == SelectSeq(list, LAMBDA i : InLower("deployment", i.title))
  IN  IF build_failures # <<>> /\ deployment_failures # <<>>
      THEN << CascadingFailuresDetected(
                [ build_failures |-> Len(build_failures),
                  deployment_failures |-> Len(deployment_failures) ]) >>
      ELSE <<>>

detect_cascading_failures(list) ==
  LET build_failures ==
        SelectSeq(list, LAMBDA i : InLower("build", i.title)
                                     /\ i.severity \in {"high", "critical"})
      deployment_failures == SelectSeq(list, LAMBDA i : InLower("deployment", i.title))
  IN  IF build_failures # <<>> /\ deployment_failures # <<>>
      THEN << CascadingFailuresDetected(
                [ build_failures |-> Len(build_failures),
                  deployment_failures |-> Len(deployment_failures) ]) >>
      ELSE <<>>

(* _detect_resource_bottlenecks without the category test *)
detect_resource_bottlenecks_any_category(list) ==
  LET resource_issues ==
        SelectSeq(list, LAMBDA i : \E keyword \in {"cpu", "memory", "resource", "gpu"} :
                                     InLower(keyword, i.title))
  IN  IF Len(resource_issues) >= 2
      THEN << SystemWideResourceConstraints(
                [ resource_issue_count |-> Len(resource_issues) ]) >>
      ELSE <<>>

(* _detect_resource_bottlenecks with  >= 0  for  >= 2 *)
detect_resource_bottlenecks_no_minimum(list) ==
  LET resource_issues ==
        SelectSeq(list, LAMBDA i : i.category = "performance"
                                     /\ \E keyword \in {"cpu", "memory", "resource", "gpu"} :
                                          InLower(keyword, i.title))
  IN  IF Len(resource_issues) >= 0
      THEN << SystemWideResourceConstraints(
                [ resource_issue_count |-> Len(resource_issues) ]) >>
      ELSE <<>>

detect_resource_bottlenecks(list) ==
  LET resource_issues ==
        SelectSeq(list, LAMBDA i : i.category = "performance"
                                     /\ \E keyword \in {"cpu", "memory", "resource", "gpu"} :
                                          InLower(keyword, i.title))
  IN  IF Len(resource_issues) >= 2
      THEN << SystemWideResourceConstraints(
                [ resource_issue_count |-> Len(resource_issues) ]) >>
      ELSE <<>>

(* the systemic Issue with a confidence of 0.15 per counted issue *)
SystemicCategoryIssues_confidence_by_count(category, count) ==
  Issue("high", category,
        "Systemic " \o str_title[category] \o " Issues",
        "Detected {count} {category} issues across pipelines",
        "Platform-Wide",
        "Multiple {category} issues indicate a systemic problem requiring platform-level attention",
        "Conduct root cause analysis for {category} issues, implement platform-level improvements, review {category} best practices",
        15 * count,
        [ issue_count |-> count, category |-> category ])

SystemicCategoryIssues(category, count) ==
  Issue("high", category,
        "Systemic " \o str_title[category] \o " Issues",
        "Detected {count} {category} issues across pipelines",
        "Platform-Wide",
        "Multiple {category} issues indicate a systemic problem requiring platform-level attention",
        "Conduct root cause analysis for {category} issues, implement platform-level improvements, review {category} best practices",
        75,
        [ issue_count |-> count, category |-> category ])

(* _detect_systemic_issues with  count > 5  for  count >= 5 *)
detect_systemic_issues_above_five(list) ==
  LET category_counts == CountBy(list, "category")
      categories == FirstSeen([i \in 1..Len(list) |-> list[i].category])
      predominant == SelectSeq(categories, LAMBDA c : category_counts[c] > 5)
  IN  [ i \in 1..Len(predominant) |->
          SystemicCategoryIssues(predominant[i], category_counts[predominant[i]]) ]

detect_systemic_issues(list) ==
  LET category_counts == CountBy(list, "category")
      categories == FirstSeen([i \in 1..Len(list) |-> list[i].category])
      predominant == SelectSeq(categories, LAMBDA c : category_counts[c] >= 5)
  IN  [ i \in 1..Len(predominant) |->
          SystemicCategoryIssues(predominant[i], category_counts[predominant[i]]) ]

detect_cross_pipeline_issues(list) ==
  detect_cascading_failures(list) \o detect_resource_bottlenecks(list)
    \o detect_systemic_issues(list)

----------------------------------------------------------------------------
(* DevOpsAgent.analyze and MLOpsAgent.analyze, one sub-check per step.     *)
(* The position of a call is the section whose sub-check runs next, then   *)
(* "return" (before the final _prioritize_issues), "done" or "raised".     *)

DevOpsSections ==
  << "builds", "tests", "deployments", "resources", "security_scans", "kubernetes" >>

MLOpsSections ==
  << "model_metrics", "training_runs", "data_metrics", "inference_metrics",
     "experiments" >>

(* the sub-check of a section, applied to data.get(section, default) *)
DevOpsSubcheck(section, data) ==
  CASE section = "builds" -> analyze_build_performance(Get(data, "builds", <<>>))
    [] section = "tests" -> analyze_test_reliability(Get(data, "tests", <<>>))
    [] section = "deployments" -> analyze_deployments(Get(data, "deployments", <<>>))
    [] section = "resources" -> analyze_resource_usage(Get(data, "resources", EmptyDict))
    [] section = "security_scans" -> analyze_security(Get(data, "security_scans", <<>>))
    [] section = "kubernetes" -> analyze_kubernetes(Get(data, "kubernetes", EmptyDict))

MLOpsSubcheck(section, data) ==
  CASE section = "model_metrics" ->
         analyze_model_performance(Get(data, "model_metrics", <<>>))
    [] section = "training_runs" -> analyze_training(Get(data, "training_runs", <<>>))
    [] section = "data_metrics" -> analyze_data_quality(Get(data, "data_metrics", EmptyDict))
    [] section = "inference_metrics" ->
         analyze_inference(Get(data, "inference_metrics", EmptyDict))
    [] section = "experiments" -> analyze_experiments(Get(data, "experiments", <<>>))

PcAfter(sections, i) == IF i = Len(sections) THEN "return" ELSE sections[i + 1]

(* issues.extend(found), on the list local to this call of analyze *)
DevOpsExtend(found) ==
  /\ devops_local' = devops_local \o found
  /\ mlops_local' = mlops_local

(* issues.extend(found) on one list that both analyzers share *)
MLOpsExtendShared(found) ==
  /\ mlops_local' = mlops_local \o found
  /\ devops_local' = devops_local \o found

MLOpsExtend(found) ==
  /\ mlops_local' = mlops_local \o found
  /\ devops_local' = devops_local

DevOpsStep ==
  /\ \E i \in 1..Len(DevOpsSections) :
       /\ devops_pc = DevOpsSections[i]
       /\ LET r == DevOpsSubcheck(DevOpsSections[i], devops_data)
          IN  IF r.raised
              THEN devops_pc' = "raised" /\ UNCHANGED << devops_local, mlops_local >>
              ELSE devops_pc' = PcAfter(DevOpsSections, i) /\ DevOpsExtend(r.issues)
  /\ UNCHANGED << call, pipeline_type, pc, issues, evidence, ret, ret2, devops_data, mlops_data,
                  mlops_pc, devops_issues, mlops_issues >>
  /\ UNCHANGED monitoring_vars

DevOpsReturn ==
  /\ devops_pc = "return"
  /\ devops_issues' = prioritize_issues(devops_local)
  /\ devops_pc' = "done"
  /\ UNCHANGED << call, pipeline_type, pc, issues, evidence, ret, ret2, devops_data, mlops_data,
                  mlops_pc, devops_local, mlops_local, mlops_issues >>
  /\ UNCHANGED monitoring_vars

MLOpsStep ==
  /\ \E i \in 1..Len(MLOpsSections) :
       /\ mlops_pc = MLOpsSections[i]
       /\ LET r == MLOpsSubcheck(MLOpsSections[i], mlops_data)
          IN  IF r.raised
              THEN mlops_pc' = "raised" /\ UNCHANGED << devops_local, mlops_local >>
              ELSE mlops_pc' = PcAfter(MLOpsSections, i) /\ MLOpsExtend(r.issues)
  /\ UNCHANGED << call, pipeline_type, pc, issues, evidence, ret, ret2, devops_data, mlops_data,
                  devops_pc, devops_issues, mlops_issues >>
  /\ UNCHANGED monitoring_vars

MLOpsReturn ==
  /\ mlops_pc = "return"
  /\ mlops_issues' = prioritize_issues(mlops_local)
  /\ mlops_pc' = "done"
  /\ UNCHANGED << call, pipeline_type, pc, issues, evidence, ret, ret2, devops_data, mlops_data,
                  devops_pc, devops_local, mlops_local, devops_issues >>
  /\ UNCHANGED monitoring_vars

(* the next call of analyze on the same agent: `issues = []` afresh *)
DevOpsCall ==
  /\ devops_pc \in {"done", "raised"}
  /\ devops_data' \in { devops_data, EmptyDict }
  /\ devops_pc' = DevOpsSections[1]
  /\ devops_local' = <<>>
  /\ devops_issues' = <<>>
  /\ UNCHANGED << call, pipeline_type, pc, issues, evidence, ret, ret2, mlops_data, mlops_pc,
                  mlops_local, mlops_issues >>
  /\ UNCHANGED monitoring_vars

MLOpsCall ==
  /\ mlops_pc \in {"done", "raised"}
  /\ mlops_data' \in { mlops_data, EmptyDict }
  /\ mlops_pc' = MLOpsSections[1]
  /\ mlops_local' = <<>>
  /\ mlops_issues' = <<>>
  /\ UNCHANGED << call, pipeline_type, pc, issues, evidence, ret, ret2, devops_data, devops_pc,
                  devops_local, devops_issues >>
  /\ UNCHANGED monitoring_vars

(* analyze as one call: the sub-checks in order, then _prioritize_issues *)
RECURSIVE DevOpsCollect(_, _)
DevOpsCollect(data, i) ==
  IF i = 0 THEN Ok(<<>>)
  ELSE LET before == DevOpsCollect(data, i - 1)
           r == DevOpsSubcheck(DevOpsSections[i], data)
       IN  IF before.raised \/ r.raised THEN Raise
           ELSE Ok(before.issues \o r.issues)

RECURSIVE MLOpsCollect(_, _)
MLOpsCollect(data, i) ==
  IF i = 0 THEN Ok(<<>>)
  ELSE LET before == MLOpsCollect(data, i - 1)
           r == MLOpsSubcheck(MLOpsSections[i], data)
       IN  IF before.raised \/ r.raised THEN Raise
           ELSE Ok(before.issues \o r.issues)

DevOpsAnalyze(data) ==
  LET all == DevOpsCollect(data, Len(DevOpsSections))
  IN  IF all.raised THEN Raise ELSE Ok(prioritize_issues(all.issues))

MLOpsAnalyze(data) ==
  LET all == MLOpsCollect(data, Len(MLOpsSections))
  IN  IF all.raised THEN Raise ELSE Ok(prioritize_issues(all.issues))

----------------------------------------------------------------------------
(* optimize of the two agents *)

Optimization(type, title, description, estimated_impact, implementation_effort, priority, steps, metrics_impact) ==
  [ type |-> type, title |-> title, description |-> description,
    estimated_impact |-> estimated_impact,
    implementation_effort |-> implementation_effort, priority |-> priority,
    steps |-> steps, metrics_impact |-> metrics_impact ]

(* format(x, ".0f") of a float x >= 0 given as a fraction: the nearest     *)
(* integer, a tie going to the even one                                    *)
Round0f(x) ==
  LET whole == x.num \div x.den
      rest == 2 * (x.num % x.den)
  IN  IF rest < x.den THEN whole
      ELSE IF rest > x.den THEN whole + 1
      ELSE IF whole % 2 = 0 THEN whole ELSE whole + 1

(* sorted(optimizations, key=lambda x: x.priority) *)
(* sorted(optimizations, key=lambda x: x.priority, reverse=True) *)
sorted_by_priority_descending(optimizations) ==
  Sorted(optimizations,
         [i \in 1..Len(optimizations) |-> << optimizations[i].priority, 0 >>], TRUE)

sorted_by_priority(optimizations) ==
  Sorted(optimizations,
         [i \in 1..Len(optimizations) |-> << optimizations[i].priority, 0 >>], FALSE)

(* DevOpsAgent.optimize: the list it returns, or the exception it raises;  *)
(* metrics_impact is in hundredths, and the formatted estimated_impact of  *)
(* the caching template is the pair of its text and the number put in it   *)
(* DevOpsAgent.optimize choosing the test template from the tests of the batch *)
devops_optimize_tests_from_batch(data, list) ==
  LET builds == Get(data, "builds", <<>>)
      durations == Values(builds, "duration", Num(0))
      avg_duration == Mean(Unwrap(durations))
      caching ==
        IF builds # <<>> /\ RLess(Ratio(300, 1), avg_duration)
        THEN << Optimization("time",
                      "Implement Build Caching",
                      "Reduce build times by caching dependencies and build artifacts",
                      << "Potential 30-50% reduction in build time (estimated saving: {avg_duration * 0.4:.0f}s per build)", Round0f(Ratio(2 * avg_duration.num, 5 * avg_duration.den)) >>,
                      "medium",
                      1,
                      << "Enable dependency caching in CI/CD system",
                         "Implement Docker layer caching for containerized builds",
                         "Cache compiled artifacts between builds",
                         "Use distributed caching for multi-stage builds" >>,
                      [ build_time_reduction |-> 40, resource_usage_reduction |-> 20 ]) >>
        ELSE <<>>
      test_issues ==
        Get(data, "tests", <<>>)
      tests ==
        IF test_issues # <<>>
        THEN << Optimization("reliability",
                      "Improve Test Suite Reliability",
                      "Fix flaky tests and improve test infrastructure",
                      "Increase confidence in test results, reduce false positives by 80%",
                      "high",
                      2,
                      << "Identify and isolate flaky tests",
                         "Add proper test isolation and cleanup",
                         "Implement retry logic for genuinely flaky external dependencies",
                         "Use test containers for consistent test environments",
                         "Add better error reporting and logging" >>,
                      [ test_reliability |-> 80, false_positive_rate |-> -80 ]) >>
        ELSE <<>>
      deployment_issues == SelectSeq(list, LAMBDA i : InLower("deployment", i.title))
      deployments ==
        IF deployment_issues # <<>>
        THEN << Optimization("reliability",
                      "Implement Blue-Green Deployments",
                      "Reduce deployment risks with zero-downtime deployment strategy",
                      "Near-zero downtime deployments, instant rollback capability",
                      "high",
                      1,
                      << "Set up parallel production environments (blue/green)",
                         "Implement health checks and automated validation",
                         "Configure load balancer for traffic switching",
                         "Add automated rollback triggers",
                         "Implement comprehensive deployment monitoring" >>,
                      [ deployment_success_rate |-> 30, rollback_time |-> -90 ]) >>
        ELSE <<>>
      resource_issues == SelectSeq(list, LAMBDA i : i.category = "performance")
      resources ==
        IF resource_issues # <<>>
        THEN << Optimization("cost",
                      "Optimize Resource Allocation",
                      "Right-size build agents and optimize resource usage",
                      "20-40% reduction in infrastructure costs",
                      "medium",
                      2,
                      << "Analyze actual resource usage patterns",
                         "Implement autoscaling for build agents",
                         "Use spot instances for non-critical builds",
                         "Optimize container resource limits",
                         "Schedule resource-intensive jobs during off-peak hours" >>,
                      [ cost_reduction |-> 30, resource_efficiency |-> 35 ]) >>
        ELSE <<>>
      k8s_issues == SelectSeq(list, LAMBDA i : InLower("kubernetes", i.affected_component))
      kubernetes ==
        IF k8s_issues # <<>>
        THEN << Optimization("reliability",
                      "Implement Kubernetes Best Practices",
                      "Apply production-ready Kubernetes configurations and observability",
                      "50% reduction in pod failures, improved cluster stability",
                      "medium",
                      2,
                      << "Configure proper resource requests and limits for all pods",
                         "Implement liveness and readiness probes",
                         "Set up Horizontal Pod Autoscaler (HPA) for dynamic scaling",
                         "Configure Pod Disruption Budgets (PDB) for high availability",
                         "Implement network policies for security",
                         "Set up cluster monitoring with Prometheus/Grafana",
                         "Configure log aggregation (ELK/Loki)",
                         "Implement pod security policies/standards" >>,
                      [ pod_failure_rate |-> -50, availability |-> 30, recovery_time |-> -60 ]),
                Optimization("cost",
                      "Optimize Kubernetes Resource Utilization",
                      "Right-size pods and implement efficient autoscaling strategies",
                      "30-40% reduction in infrastructure costs",
                      "medium",
                      2,
                      << "Analyze actual resource usage vs requests using metrics server",
                         "Right-size pod resource requests and limits based on actual usage",
                         "Implement Vertical Pod Autoscaler (VPA) for automatic sizing",
                         "Use cluster autoscaler for node-level scaling",
                         "Implement pod priority classes for critical workloads",
                         "Use spot/preemptible nodes for non-critical workloads",
                         "Schedule batch jobs during off-peak hours",
                         "Implement resource quotas per namespace" >>,
                      [ cost_reduction |-> 35, resource_waste |-> -45 ]),
                Optimization("performance",
                      "Improve Kubernetes Deployment Speed and Reliability",
                      "Optimize container images and deployment strategies",
                      "50% faster deployments, zero-downtime updates",
                      "medium",
                      3,
                      << "Optimize container images (multi-stage builds, minimize layers)",
                         "Implement image caching strategies",
                         "Use rolling updates with proper readiness checks",
                         "Configure appropriate terminationGracePeriodSeconds",
                         "Implement blue-green or canary deployment strategies",
                         "Use init containers for setup tasks",
                         "Optimize image pull policy (IfNotPresent)",
                         "Set up local container registry cache" >>,
                      [ deployment_time |-> -50, deployment_success_rate |-> 25 ]) >>
        ELSE <<>>
  IN  IF ~AllNumbers(durations)
      THEN Raise                         \* sum(...): TypeError
      ELSE Ok(sorted_by_priority(caching \o tests \o deployments \o resources
                                   \o kubernetes))

devops_optimize(data, list) ==
  LET builds == Get(data, "builds", <<>>)
      durations == Values(builds, "duration", Num(0))
      avg_duration == Mean(Unwrap(durations))
      caching ==
        IF builds # <<>> /\ RLess(Ratio(300, 1), avg_duration)
        THEN << Optimization("time",
                      "Implement Build Caching",
                      "Reduce build times by caching dependencies and build artifacts",
                      << "Potential 30-50% reduction in build time (estimated saving: {avg_duration * 0.4:.0f}s per build)", Round0f(Ratio(2 * avg_duration.num, 5 * avg_duration.den)) >>,
                      "medium",
                      1,
                      << "Enable dependency caching in CI/CD system",
                         "Implement Docker layer caching for containerized builds",
                         "Cache compiled artifacts between builds",
                         "Use distributed caching for multi-stage builds" >>,
                      [ build_time_reduction |-> 40, resource_usage_reduction |-> 20 ]) >>
        ELSE <<>>
      test_issues ==
        SelectSeq(list, LAMBDA i : i.category = "reliability" /\ InLower("test", i.title))
      tests ==
        IF test_issues # <<>>
        THEN << Optimization("reliability",
                      "Improve Test Suite Reliability",
                      "Fix flaky tests and improve test infrastructure",
                      "Increase confidence in test results, reduce false positives by 80%",
                      "high",
                      2,
                      << "Identify and isolate flaky tests",
                         "Add proper test isolation and cleanup",
                         "Implement retry logic for genuinely flaky external dependencies",
                         "Use test containers for consistent test environments",
                         "Add better error reporting and logging" >>,
                      [ test_reliability |-> 80, false_positive_rate |-> -80 ]) >>
        ELSE <<>>
      deployment_issues == SelectSeq(list, LAMBDA i : InLower("deployment", i.title))
      deployments ==
        IF deployment_issues # <<>>
        THEN << Optimization("reliability",
                      "Implement Blue-Green Deployments",
                      "Reduce deployment risks with zero-downtime deployment strategy",
                      "Near-zero downtime deployments, instant rollback capability",
                      "high",
                      1,
                      << "Set up parallel production environments (blue/green)",
                         "Implement health checks and automated validation",
                         "Configure load balancer for traffic switching",
                         "Add automated rollback triggers",
                         "Implement comprehensive deployment monitoring" >>,
                      [ deployment_success_rate |-> 30, rollback_time |-> -90 ]) >>
        ELSE <<>>
      resource_issues == SelectSeq(list, LAMBDA i : i.category = "performance")
      resources ==
        IF resource_issues # <<>>
        THEN << Optimization("cost",
                      "Optimize Resource Allocation",
                      "Right-size build agents and optimize resource usage",
                      "20-40% reduction in infrastructure costs",
                      "medium",
                      2,
                      << "Analyze actual resource usage patterns",
                         "Implement autoscaling for build agents",
                         "Use spot instances for non-critical builds",
                         "Optimize container resource limits",
                         "Schedule resource-intensive jobs during off-peak hours" >>,
                      [ cost_reduction |-> 30, resource_efficiency |-> 35 ]) >>
        ELSE <<>>
      k8s_issues == SelectSeq(list, LAMBDA i : InLower("kubernetes", i.affected_component))
      kubernetes ==
        IF k8s_issues # <<>>
        THEN << Optimization("reliability",
                      "Implement Kubernetes Best Practices",
                      "Apply production-ready Kubernetes configurations and observability",
                      "50% reduction in pod failures, improved cluster stability",
                      "medium",
                      2,
                      << "Configure proper resource requests and limits for all pods",
                         "Implement liveness and readiness probes",
                         "Set up Horizontal Pod Autoscaler (HPA) for dynamic scaling",
                         "Configure Pod Disruption Budgets (PDB) for high availability",
                         "Implement network policies for security",
                         "Set up cluster monitoring with Prometheus/Grafana",
                         "Configure log aggregation (ELK/Loki)",
                         "Implement pod security policies/standards" >>,
                      [ pod_failure_rate |-> -50, availability |-> 30, recovery_time |-> -60 ]),
                Optimization("cost",
                      "Optimize Kubernetes Resource Utilization",
                      "Right-size pods and implement efficient autoscaling strategies",
                      "30-40% reduction in infrastructure costs",
                      "medium",
                      2,
                      << "Analyze actual resource usage vs requests using metrics server",
                         "Right-size pod resource requests and limits based on actual usage",
                         "Implement Vertical Pod Autoscaler (VPA) for automatic sizing",
                         "Use cluster autoscaler for node-level scaling",
                         "Implement pod priority classes for critical workloads",
                         "Use spot/preemptible nodes for non-critical workloads",
                         "Schedule batch jobs during off-peak hours",
                         "Implement resource quotas per namespace" >>,
                      [ cost_reduction |-> 35, resource_waste |-> -45 ]),
                Optimization("performance",
                      "Improve Kubernetes Deployment Speed and Reliability",
                      "Optimize container images and deployment strategies",
                      "50% faster deployments, zero-downtime updates",
                      "medium",
                      3,
                      << "Optimize container images (multi-stage builds, minimize layers)",
                         "Implement image caching strategies",
                         "Use rolling updates with proper readiness checks",
                         "Configure appropriate terminationGracePeriodSeconds",
                         "Implement blue-green or canary deployment strategies",
                         "Use init containers for setup tasks",
                         "Optimize image pull policy (IfNotPresent)",
                         "Set up local container registry cache" >>,
                      [ deployment_time |-> -50, deployment_success_rate |-> 25 ]) >>
        ELSE <<>>
  IN  IF ~AllNumbers(durations)
      THEN Raise                         \* sum(...): TypeError
      ELSE Ok(sorted_by_priority(caching \o tests \o deployments \o resources
                                   \o kubernetes))

(* MLOpsAgent.optimize *)
(* MLOpsAgent.optimize appending the cost template only for a non-empty list *)
mlops_optimize_cost_for_issues(data, list) ==
  LET training_runs == Get(data, "training_runs", <<>>)
      training ==
        IF training_runs # <<>>
        THEN << Optimization("performance",
                      "Implement Distributed Training",
                      "Speed up training with data-parallel or model-parallel distributed training",
                      "50-70% reduction in training time for large models",
                      "high",
                      2,
                      << "Evaluate distributed training frameworks (PyTorch DDP, Horovod, DeepSpeed)",
                         "Refactor training code for distributed execution",
                         "Set up multi-GPU or multi-node infrastructure",
                         "Optimize data loading for distributed training",
                         "Implement gradient accumulation for effective large batch training",
                         "Test and validate distributed training convergence" >>,
                      [ training_time_reduction |-> 60, throughput_increase |-> 250 ]) >>
        ELSE <<>>
      performance_issues ==
        SelectSeq(list, LAMBDA i : i.category = "performance" /\ InLower("inference", i.title))
      model ==
        IF performance_issues # <<>>
        THEN << Optimization("performance",
                      "Optimize Model for Inference",
                      "Apply model optimization techniques to reduce latency and improve throughput",
                      "30-50% latency reduction, 2-3x throughput improvement",
                      "medium",
                      1,
                      << "Apply model quantization (INT8 or mixed precision)",
                         "Prune unnecessary weights and connections",
                         "Use ONNX Runtime or TensorRT for optimized serving",
                         "Implement dynamic batching",
                         "Enable model caching for repeated inputs",
                         "Profile and optimize preprocessing pipeline" >>,
                      [ latency_reduction |-> 40, throughput_increase |-> 200, cost_reduction |-> 30 ]) >>
        ELSE <<>>
      data_issues == SelectSeq(list, LAMBDA i : i.category = "quality")
      quality ==
        IF data_issues # <<>>
        THEN << Optimization("quality",
                      "Implement Automated Data Quality Monitoring",
                      "Set up continuous data quality monitoring and alerting",
                      "Early detection of data issues, 80% reduction in data-related model failures",
                      "medium",
                      1,
                      << "Define data quality metrics and thresholds",
                         "Implement automated data validation pipeline",
                         "Set up data drift detection monitors",
                         "Create alerting for quality violations",
                         "Build data profiling dashboard",
                         "Implement automated data quality reports" >>,
                      [ data_issue_detection |-> 80, model_reliability |-> 30 ]) >>
        ELSE <<>>
      infrastructure ==
        << Optimization("reliability",
                      "Implement Automated Model Retraining Pipeline",
                      "Set up automated retraining triggered by performance degradation or data drift",
                      "Maintain model performance automatically, reduce manual intervention by 90%",
                      "high",
                      2,
                      << "Define retraining triggers (drift, performance drop, schedule)",
                         "Implement automated data preparation pipeline",
                         "Set up automated training with hyperparameter optimization",
                         "Implement automated model validation and testing",
                         "Create automated deployment with A/B testing",
                         "Set up rollback mechanisms for failed deployments",
                         "Implement continuous monitoring and alerting" >>,
                      [ model_freshness |-> 90, manual_effort |-> -90, downtime |-> -50 ]) >>
      cost ==
        IF list = <<>> THEN <<>> ELSE
        << Optimization("cost",
                      "Optimize Training and Inference Costs",
                      "Reduce cloud costs through resource optimization and efficient scheduling",
                      "25-40% reduction in ML infrastructure costs",
                      "medium",
                      3,
                      << "Use spot instances for training workloads",
                         "Implement auto-scaling for inference",
                         "Optimize model size and complexity",
                         "Schedule training during off-peak hours",
                         "Use reserved instances for baseline capacity",
                         "Implement resource usage monitoring and alerts" >>,
                      [ cost_reduction |-> 35, resource_efficiency |-> 40 ]) >>
  IN  Ok(sorted_by_priority(training \o model \o quality \o infrastructure \o cost))

mlops_optimize(data, list) ==
  LET training_runs == Get(data, "training_runs", <<>>)
      training ==
        IF training_runs # <<>>
        THEN << Optimization("performance",
                      "Implement Distributed Training",
                      "Speed up training with data-parallel or model-parallel distributed training",
                      "50-70% reduction in training time for large models",
                      "high",
                      2,
                      << "Evaluate distributed training frameworks (PyTorch DDP, Horovod, DeepSpeed)",
                         "Refactor training code for distributed execution",
                         "Set up multi-GPU or multi-node infrastructure",
                         "Optimize data loading for distributed training",
                         "Implement gradient accumulation for effective large batch training",
                         "Test and validate distributed training convergence" >>,
                      [ training_time_reduction |-> 60, throughput_increase |-> 250 ]) >>
        ELSE <<>>
      performance_issues ==
        SelectSeq(list, LAMBDA i : i.category = "performance" /\ InLower("inference", i.title))
      model ==
        IF performance_issues # <<>>
        THEN << Optimization("performance",
                      "Optimize Model for Inference",
                      "Apply model optimization techniques to reduce latency and improve throughput",
                      "30-50% latency reduction, 2-3x throughput improvement",
                      "medium",
                      1,
                      << "Apply model quantization (INT8 or mixed precision)",
                         "Prune unnecessary weights and connections",
                         "Use ONNX Runtime or TensorRT for optimized serving",
                         "Implement dynamic batching",
                         "Enable model caching for repeated inputs",
                         "Profile and optimize preprocessing pipeline" >>,
                      [ latency_reduction |-> 40, throughput_increase |-> 200, cost_reduction |-> 30 ]) >>
        ELSE <<>>
      data_issues == SelectSeq(list, LAMBDA i : i.category = "quality")
      quality ==
        IF data_issues # <<>>
        THEN << Optimization("quality",
                      "Implement Automated Data Quality Monitoring",
                      "Set up continuous data quality monitoring and alerting",
                      "Early detection of data issues, 80% reduction in data-related model failures",
                      "medium",
                      1,
                      << "Define data quality metrics and thresholds",
                         "Implement automated data validation pipeline",
                         "Set up data drift detection monitors",
                         "Create alerting for quality violations",
                         "Build data profiling dashboard",
                         "Implement automated data quality reports" >>,
                      [ data_issue_detection |-> 80, model_reliability |-> 30 ]) >>
        ELSE <<>>
      infrastructure ==
        << Optimization("reliability",
                      "Implement Automated Model Retraining Pipeline",
                      "Set up automated retraining triggered by performance degradation or data drift",
                      "Maintain model performance automatically, reduce manual intervention by 90%",
                      "high",
                      2,
                      << "Define retraining triggers (drift, performance drop, schedule)",
                         "Implement automated data preparation pipeline",
                         "Set up automated training with hyperparameter optimization",
                         "Implement automated model validation and testing",
                         "Create automated deployment with A/B testing",
                         "Set up rollback mechanisms for failed deployments",
                         "Implement continuous monitoring and alerting" >>,
                      [ model_freshness |-> 90, manual_effort |-> -90, downtime |-> -50 ]) >>
      cost ==
        << Optimization("cost",
                      "Optimize Training and Inference Costs",
                      "Reduce cloud costs through resource optimization and efficient scheduling",
                      "25-40% reduction in ML infrastructure costs",
                      "medium",
                      3,
                      << "Use spot instances for training workloads",
                         "Implement auto-scaling for inference",
                         "Optimize model size and complexity",
                         "Schedule training during off-peak hours",
                         "Use reserved instances for baseline capacity",
                         "Implement resource usage monitoring and alerts" >>,
                      [ cost_reduction |-> 35, resource_efficiency |-> 40 ]) >>
  IN  Ok(sorted_by_priority(training \o model \o quality \o infrastructure \o cost))

----------------------------------------------------------------------------
(* calls of the shared capability and of the correlator *)

(* Prioritize with the list sorted in place by list.sort and handed back *)
PrioritizeInPlace ==
  /\ call = "prioritize" /\ pc = "call"
  /\ issues' = prioritize_issues(issues)
  /\ ret' = issues'
  /\ pc' = "returned"
  /\ UNCHANGED << call, pipeline_type, evidence, ret2, devops_data, mlops_data, devops_pc,
                  mlops_pc, devops_local, mlops_local, devops_issues, mlops_issues >>
  /\ UNCHANGED monitoring_vars

Prioritize ==
  /\ call = "prioritize" /\ pc = "call"
  /\ ret' = prioritize_issues(issues)
  /\ pc' = "returned"
  /\ UNCHANGED << call, pipeline_type, issues, evidence, ret2, devops_data, mlops_data, devops_pc,
                  mlops_pc, devops_local, mlops_local, devops_issues, mlops_issues >>
  /\ UNCHANGED monitoring_vars

PrioritizeAgain ==
  /\ call = "prioritize" /\ pc = "returned"
  /\ ret2' = prioritize_issues(ret)
  /\ pc' = "returned2"
  /\ UNCHANGED << call, pipeline_type, issues, evidence, ret, devops_data, mlops_data, devops_pc,
                  mlops_pc, devops_local, mlops_local, devops_issues, mlops_issues >>
  /\ UNCHANGED monitoring_vars

Summarize ==
  /\ call = "summary" /\ pc = "call"
  /\ ret' = generate_summary(issues)
  /\ pc' = "returned"
  /\ UNCHANGED << call, pipeline_type, issues, evidence, ret2, devops_data, mlops_data, devops_pc,
                  mlops_pc, devops_local, mlops_local, devops_issues, mlops_issues >>
  /\ UNCHANGED monitoring_vars

Confidence ==
  /\ call = "confidence" /\ pc = "call"
  /\ ret' = calculate_confidence(evidence)
  /\ pc' = "returned"
  /\ UNCHANGED << call, pipeline_type, issues, evidence, ret2, devops_data, mlops_data, devops_pc,
                  mlops_pc, devops_local, mlops_local, devops_issues, mlops_issues >>
  /\ UNCHANGED monitoring_vars

Detect ==
  /\ call = "detect" /\ pc = "call"
  /\ ret' = detect_cross_pipeline_issues(issues)
  /\ pc' = "returned"
  /\ UNCHANGED << call, pipeline_type, issues, evidence, ret2, devops_data, mlops_data, devops_pc,
                  mlops_pc, devops_local, mlops_local, devops_issues, mlops_issues >>
  /\ UNCHANGED monitoring_vars

DevOpsOptimize ==
  /\ call = "devops_optimize" /\ pc = "call"
  /\ LET r == devops_optimize(devops_data, issues)
     IN  /\ ret' = r.issues
         /\ pc' = IF r.raised THEN "raised" ELSE "returned"
  /\ UNCHANGED << call, pipeline_type, issues, evidence, ret2, devops_data, mlops_data, devops_pc,
                  mlops_pc, devops_local, mlops_local, devops_issues, mlops_issues >>
  /\ UNCHANGED monitoring_vars

MLOpsOptimize ==
  /\ call = "mlops_optimize" /\ pc = "call"
  /\ LET r == mlops_optimize(mlops_data, issues)
     IN  /\ ret' = r.issues
         /\ pc' = IF r.raised THEN "raised" ELSE "returned"
  /\ UNCHANGED << call, pipeline_type, issues, evidence, ret2, devops_data, mlops_data, devops_pc,
                  mlops_pc, devops_local, mlops_local, devops_issues, mlops_issues >>
  /\ UNCHANGED monitoring_vars

----------------------------------------------------------------------------
(* inputs *)

MaxLen == 4

MaxRun == 5

Absent == [ present |-> FALSE, value |-> <<>> ]

Present(v) == [ present |-> TRUE, value |-> v ]

(* the batch that holds the sections chosen as present *)
MakeBatch(choice) ==
  [ s \in {x \in DOMAIN choice : choice[x].present} |-> choice[s].value ]

Build(status, duration) == [ status |-> status, duration |-> Num(duration) ]

BuildsOptions ==
  { Absent,
    Present(<<>>),
    Present(<< Build("success", 300), Build("success", 400) >>),
    Present(<< Build("success", 600), Build("success", 700) >>),
    Present(<< Build("success", 700), Build("failed", 100), [ status |-> "success" ] >>),
    Present(<< Build("success", 700), [ status |-> "success", duration |-> Str("n/a") ] >>) }

Test(name, status) == [ name |-> name, status |-> status ]

TestsOptions ==
  { Absent,
    Present(<< Test("test_api", "passed"), Test("test_auth", "failed"),
               Test("test_api", "failed"), Test("test_auth", "failed"),
               [ status |-> "failed" ] >>),
    Present(<< Test("test_api", "passed"), Test("test_api", "passed") >>) }

Deployment(status, timestamp) == [ status |-> status, timestamp |-> timestamp ]

DeploymentsOptions ==
  { Absent,
    Present(<< Deployment("success", "2024-01-01"), Deployment("failed", "2024-01-02"),
               [ status |-> "failed" ] >>),
    Present(<< Deployment("success", "2024-01-01"), [ status |-> "failed" ] >>) }

ResourcesOptions ==
  { Absent,
    Present([ cpu_usage |-> << Num(40), Num(95) >>, memory_usage |-> << Num(90) >> ]),
    Present([ cpu_usage |-> << Num(40), Num(90) >>, memory_usage |-> << Num(85) >> ]),
    Present([ cpu_usage |-> << Num(95), Str("n/a") >>, memory_usage |-> << Num(90) >> ]) }

Vuln(severity, cve) == [ severity |-> severity, cve |-> cve ]

SecurityOptions ==
  { Absent,
    Present(<< [ vulnerabilities |-> << Vuln("critical", "CVE-2024-1000"),
                                       Vuln("medium", "CVE-2024-1001") >> ] >>),
    Present(<< [ vulnerabilities |-> [ i \in 1..6 |-> Vuln("high", "CVE-2024-2000") ]
                                       \o << Vuln("critical", "CVE-2024-1000") >> ],
               [ vulnerabilities |-> [ i \in 1..5 |-> Vuln("high", "CVE-2024-2000") ] ] >>) }

Named(name, status) == [ name |-> name, status |-> status ]

Replicas(name, desired, available) ==
  [ name |-> name, desired_replicas |-> desired, available_replicas |-> available ]

KubernetesOptions ==
  { Absent,
    Present(EmptyDict),
    Present([ pods |-> << Named("app-pod-0", "CrashLoopBackOff"), Named("app-pod-1", "Pending"),
                          Named("app-pod-2", "Pending"), Named("app-pod-3", "Pending"),
                          Named("app-pod-4", "Pending"), Named("app-pod-5", "Running") >>,
              nodes |-> << Named("node-0", "Ready"), Named("node-1", "NotReady") >>,
              deployments |-> << Replicas("model-service-v0", 3, 0),
                                 Replicas("model-service-v1", 3, 2),
                                 Replicas("model-service-v2", 2, 2) >>,
              resource_usage |-> [ cpu_usage_percent |-> 90, memory_usage_percent |-> 88 ],
              pvcs |-> << Named("pvc-0", "Bound"), Named("pvc-1", "Pending") >>,
              service_mesh |-> [ error_rate |-> 80 ] ]),
    Present([ pods |-> << Named("app-pod-0", "Running"), Named("app-pod-1", "Pending") >>,
              nodes |-> << Named("node-0", "Ready") >>,
              deployments |-> << Replicas("model-service-v0", 2, 2) >>,
              resource_usage |-> [ cpu_usage_percent |-> 85, memory_usage_percent |-> 60 ],
              pvcs |-> << Named("pvc-0", "Bound") >>,
              service_mesh |-> [ error_rate |-> 50 ] ]) }

DevOpsBatches ==
  { MakeBatch(choice) :
      choice \in [ builds : BuildsOptions, tests : TestsOptions,
                   deployments : DeploymentsOptions, resources : ResourcesOptions,
                   security_scans : SecurityOptions, kubernetes : KubernetesOptions ] }

Point(timestamp, accuracy, f1_score) ==
  [ timestamp |-> timestamp, accuracy |-> accuracy, f1_score |-> f1_score ]

ModelMetricsOptions ==
  { Absent,
    Present(<< Point(1, 900, 650) >>),
    Present([ i \in 1..10 |-> IF i <= 5 THEN Point(11 - i, 800, 650)
                                        ELSE Point(11 - i, 900, 850) ]),
    Present([ i \in 1..6 |-> Point(i, 900, 850) ]) }

Run(status, duration, gpu) ==
  [ status |-> status, duration |-> duration, gpu_utilization |-> gpu ]

TrainingOptions ==
  { Absent,
    Present(<< Run("completed", 18000, << 500, 600 >>), Run("failed", 600, <<>>),
               Run("completed", 14400, << 550 >>) >>),
    Present(<< Run("completed", 3600, << 900, 700 >>), Run("completed", 7200, << 600 >>) >>) }

DataMetricsOptions ==
  { Absent,
    Present([ drift_score |-> 150, quality_score |-> 920, missing_value_rate |-> 80 ]),
    Present([ drift_score |-> 100, quality_score |-> 950, missing_value_rate |-> 50 ]) }

InferenceOptions ==
  { Absent,
    Present(EmptyDict),
    Present([ latency_p95 |-> Num(150), throughput |-> 80, error_rate |-> 20 ]),
    Present([ latency_p95 |-> Num(100), throughput |-> 100, error_rate |-> 10 ]),
    Present([ latency_p95 |-> Str("n/a"), throughput |-> 120, error_rate |-> 5 ]) }

Experiment(name, tags) == [ name |-> name, tags |-> tags ]

ExperimentsOptions ==
  { Absent,
    Present(<< Experiment("model_v0", [ model_type |-> "classifier" ]),
               Experiment("model_v1", EmptyDict), [ name |-> "model_v2" ] >>),
    Present(<< Experiment("model_v0", [ model_type |-> "classifier" ]) >>) }

MLOpsBatches ==
  { MakeBatch(choice) :
      choice \in [ model_metrics : ModelMetricsOptions, training_runs : TrainingOptions,
                   data_metrics : DataMetricsOptions,
                   inference_metrics : InferenceOptions,
                   experiments : ExperimentsOptions ] }

(* Issue lists for the shared capability: every list of at most MaxLen of  *)
(* these Issues, three of which tie on (severity, confidence).             *)
IssueUniverse ==
  { HighKubernetesClusterCPUUsage([ cpu_usage_percent |-> 90 ]),
    HighKubernetesClusterMemoryUsage([ memory_usage_percent |-> 88 ]),
    DataDriftDetected([ drift_score |-> 150 ]),
    CriticalSecurityVulnerabilitiesDetected(
      [ critical_count |-> 1, vulnerabilities |-> << Vuln("critical", "CVE-2024-1000") >> ]),
    SlowBuildTimes([ avg_duration |-> Ratio(650, 1), sample_size |-> 20 ]),
    HighCPUUsage([ max_cpu |-> 95, avg_cpu |-> Ratio(135, 2) ]),
    PoorExperimentOrganization([ untagged_count |-> 2, total_count |-> 3 ]) }

IssueLists == UNION { [1..n -> IssueUniverse] : n \in 0..MaxLen }

(* evidence mappings: any subset of these keys, values in tenths *)
EvidenceKeys ==
  { "pattern_match", "statistical_significance", "historical_data", "expert_review" }

EvidenceValues == { -10, 0, 5, 10, 30 }

EvidenceMaps == UNION { [keys -> EvidenceValues] : keys \in SUBSET EvidenceKeys }

(* Issue lists for the correlator: three runs of at most MaxRun copies *)
DetectUniverse ==
  { HighBuildFailureRate([ failure_rate |-> Ratio(1, 2), failed_count |-> 1,
                           total_count |-> 2 ]),
    SlowBuildTimes([ avg_duration |-> Ratio(650, 1), sample_size |-> 20 ]),
    HighDeploymentFailureRate([ failure_rate |-> Ratio(1, 2), failed_count |-> 1,
                                total_count |-> 2 ]),
    HighCPUUsage([ max_cpu |-> 95, avg_cpu |-> Ratio(135, 2) ]),
    LowGPUUtilization([ avg_gpu_utilization |-> Ratio(550, 1) ]),
    Issue("critical", "reliability", "Build and Deployment Blocked",
          "The release branch cannot be built or deployed", "Release Pipeline",
          "No release can be made", "Unblock the release branch", 80, EmptyDict) }

Repeat(x, n) == [i \in 1..n |-> x]

DetectLists ==
  { Repeat(a, k) \o Repeat(b, m) \o Repeat(c, n) :
      << a, b, c, k, m, n >> \in DetectUniverse \X DetectUniverse \X DetectUniverse
                                   \X (0..MaxRun) \X (0..MaxRun) \X (0..MaxRun) }

(* batches for the delivery analyzer with one section of graded content: *)
(* runs of equal records whose lengths range up to these bounds           *)
MaxBuilds == 10

MaxFailedBuilds == 3

MaxRuns == 9

MaxDeployments == 9

MaxHigh == 6

MaxReplicas == 2

BuildLists ==
  { Repeat(Build("success", 600), a) \o Repeat(Build("success", 700), b)
      \o Repeat(Build("failed", 9000), c) \o Repeat(Build("aborted", 50), d) :
      << a, b, c, d >> \in (0..MaxBuilds) \X (0..MaxBuilds) \X (0..MaxFailedBuilds)
                             \X (0..1) }

TestLists ==
  { Repeat(Test("test_api", "passed"), p) \o Repeat(Test("test_api", "failed"), f)
      \o Repeat(Test("test_auth", "passed"), q) \o Repeat(Test("test_auth", "skipped"), g)
      \o Repeat([ status |-> "failed" ], 1) :
      << p, f, q, g >> \in (0..MaxRuns) \X (0..MaxRuns) \X (0..2) \X (0..2) }

DeploymentLists ==
  { Repeat(Deployment("success", "2024-01-01"), a)
      \o Repeat(Deployment("failed", "2024-01-02"), b)
      \o Repeat([ status |-> "failed" ], c) \o Repeat(Deployment("failed", ""), d) :
      << a, b, c, d >> \in (0..MaxDeployments) \X (0..2) \X (0..2) \X (0..1) }

ScanLists ==
  LET scans == { [ vulnerabilities |->
                     Repeat(Vuln("critical", "CVE-2024-1000"), c)
                       \o Repeat(Vuln("high", "CVE-2024-2000"), h)
                       \o << Vuln("medium", "CVE-2024-3000") >> ] :
                   << c, h >> \in (0..2) \X (0..MaxHigh) } \cup { EmptyDict }
  IN  UNION { [1..n -> scans] : n \in 0..2 }

ClusterDeploymentLists ==
  LET deployments ==
        { Replicas("model-service", desired, available) :
            << desired, available >> \in (0..MaxReplicas) \X (0..MaxReplicas) }
          \cup { [ name |-> "model-service", desired_replicas |-> 2 ] }
  IN  UNION { [1..n -> deployments] : n \in 1..3 }

SectionBatches ==
  { [ builds |-> x ] : x \in BuildLists } \cup { [ tests |-> x ] : x \in TestLists }
    \cup { [ deployments |-> x ] : x \in DeploymentLists }
    \cup { [ security_scans |-> x ] : x \in ScanLists }
    \cup { [ kubernetes |-> [ deployments |-> x ] ] : x \in ClusterDeploymentLists }

(* model-metric sections: runs of points at accuracy 0.90, 0.85 and 0.80,  *)
(* falling or rising in time, listed in time order or backwards; the      *)
(* latest point has its own F1 score                                        *)
MaxPoints == 5

ModelMetricLists ==
  { LET falling == Repeat(900, a) \o Repeat(850, b) \o Repeat(800, c)
        accuracy == IF rising THEN Reverse(falling) ELSE falling
        n == Len(accuracy)
        points == [ i \in 1..n |->
                      Point(i, accuracy[i], IF i = n THEN f1 ELSE 1500 - f1) ]
    IN  IF backwards THEN Reverse(points) ELSE points :
      << a, b, c, f1, rising, backwards >> \in
        (0..MaxPoints) \X (0..MaxPoints) \X (0..MaxPoints) \X {650, 700, 850}
          \X BOOLEAN \X BOOLEAN }

----------------------------------------------------------------------------
(* specifications *)

(* the orchestrator as constructed, with the default configuration *)
NoMonitoring ==
  /\ config = [ enable_notifications |-> TRUE,
                 notification_channels |-> [ list |-> << "email", "slack" >> ] ]
  /\ monitoring_active = FALSE /\ monitor_pc = "idle"
  /\ cycles = 0 /\ sleeps = 0 /\ notified = <<>>

NoCall ==
  /\ pc = "call" /\ issues = <<>> /\ evidence = EmptyDict /\ ret = <<>> /\ ret2 = <<>>
  /\ pipeline_type = "both"

NoAnalysis ==
  /\ pipeline_type = "both"
  /\ devops_data = EmptyDict /\ mlops_data = EmptyDict
  /\ devops_pc = "idle" /\ mlops_pc = "idle"
  /\ devops_local = <<>> /\ mlops_local = <<>>
  /\ devops_issues = <<>> /\ mlops_issues = <<>>

InitPrioritize ==
  /\ call = "prioritize" /\ pc = "call"
  /\ issues \in IssueLists
  /\ evidence = EmptyDict /\ ret = <<>> /\ ret2 = <<>>
  /\ NoAnalysis
  /\ NoMonitoring

InitSummarize ==
  /\ call = "summary" /\ pc = "call"
  /\ issues \in IssueLists
  /\ evidence = EmptyDict /\ ret = <<>> /\ ret2 = <<>>
  /\ NoAnalysis
  /\ NoMonitoring

InitConfidence ==
  /\ call = "confidence" /\ pc = "call"
  /\ evidence \in EvidenceMaps
  /\ issues = <<>> /\ ret = <<>> /\ ret2 = <<>>
  /\ NoAnalysis
  /\ NoMonitoring

InitDetect ==
  /\ call = "detect" /\ pc = "call"
  /\ issues \in DetectLists
  /\ evidence = EmptyDict /\ ret = <<>> /\ ret2 = <<>>
  /\ NoAnalysis
  /\ NoMonitoring

InitDevOps ==
  /\ call = "devops" /\ NoCall
  /\ devops_data \in DevOpsBatches /\ devops_pc = DevOpsSections[1]
  /\ mlops_data = EmptyDict /\ mlops_pc = "idle"
  /\ devops_local = <<>> /\ mlops_local = <<>>
  /\ devops_issues = <<>> /\ mlops_issues = <<>>
  /\ NoMonitoring

InitMLOps ==
  /\ call = "mlops" /\ NoCall
  /\ mlops_data \in MLOpsBatches /\ mlops_pc = MLOpsSections[1]
  /\ devops_data = EmptyDict /\ devops_pc = "idle"
  /\ devops_local = <<>> /\ mlops_local = <<>>
  /\ devops_issues = <<>> /\ mlops_issues = <<>>
  /\ NoMonitoring

(* both analyses started together, on batches with at most one section *)
Small(batches) == { b \in batches : Cardinality(DOMAIN b) <= 1 }

SmallDevOpsBatches == Small(DevOpsBatches)

SmallMLOpsBatches == Small(MLOpsBatches)

InitConcurrent ==
  /\ call = "both" /\ NoCall
  /\ devops_data \in SmallDevOpsBatches
  /\ mlops_data \in SmallMLOpsBatches
  /\ devops_pc = DevOpsSections[1] /\ mlops_pc = MLOpsSections[1]
  /\ devops_local = <<>> /\ mlops_local = <<>>
  /\ devops_issues = <<>> /\ mlops_issues = <<>>
  /\ NoMonitoring

(* src/src/orchestrator.py: analyze_pipelines.  The two analyses are      *)
(* awaited one after the other; an exception of analyze leaves             *)
(* analyze_pipelines, which has no handler.  results["timestamp"] is the   *)
(* wall clock and is left out.                                             *)
PipelineTypes == { "devops", "mlops", "both", "security" }

PipelineResult(data, found) ==
  [ data |-> data,
    issues |-> [i \in 1..Len(found) |-> to_dict(found[i])],
    summary |-> generate_summary(found) ]

InitPipelines ==
  /\ call = "analyze_pipelines" /\ pc = "call"
  /\ pipeline_type \in PipelineTypes
  /\ issues = <<>> /\ evidence = EmptyDict /\ ret2 = <<>>
  /\ ret = [ pipeline_type |-> pipeline_type, devops |-> None, mlops |-> None ]
  /\ devops_data = EmptyDict /\ mlops_data = EmptyDict
  /\ devops_pc = "idle" /\ mlops_pc = "idle"
  /\ devops_local = <<>> /\ mlops_local = <<>>
  /\ devops_issues = <<>> /\ mlops_issues = <<>>
  /\ NoMonitoring

PipelinesDevOps ==
  /\ call = "analyze_pipelines" /\ pc = "call"
  /\ IF pipeline_type \in {"devops", "both"}
     THEN \E data \in SmallDevOpsBatches :
            LET r == DevOpsAnalyze(data)
            IN  /\ devops_data' = data
                /\ IF r.raised
                   THEN /\ devops_pc' = "raised" /\ pc' = "raised"
                        /\ UNCHANGED << devops_issues, ret >>
                   ELSE /\ devops_pc' = "done" /\ pc' = "mlops"
                        /\ devops_issues' = r.issues
                        /\ ret' = [ret EXCEPT !.devops = PipelineResult(data, r.issues)]
     ELSE /\ pc' = "mlops"
          /\ UNCHANGED << devops_data, devops_pc, devops_issues, ret >>
  /\ UNCHANGED << call, pipeline_type, issues, evidence, ret2, mlops_data, mlops_pc,
                  devops_local, mlops_local, mlops_issues >>
  /\ UNCHANGED monitoring_vars

PipelinesMLOps ==
  /\ call = "analyze_pipelines" /\ pc = "mlops"
  /\ IF pipeline_type \in {"mlops", "both"}
     THEN \E data \in SmallMLOpsBatches :
            LET r == MLOpsAnalyze(data)
            IN  /\ mlops_data' = data
                /\ IF r.raised
                   THEN /\ mlops_pc' = "raised" /\ pc' = "raised"
                        /\ UNCHANGED << mlops_issues, ret >>
                   ELSE /\ mlops_pc' = "done" /\ pc' = "correlate"
                        /\ mlops_issues' = r.issues
                        /\ ret' = [ret EXCEPT !.mlops = PipelineResult(data, r.issues)]
     ELSE /\ pc' = "correlate"
          /\ UNCHANGED << mlops_data, mlops_pc, mlops_issues, ret >>
  /\ UNCHANGED << call, pipeline_type, issues, evidence, ret2, devops_data, devops_pc,
                  devops_local, mlops_local, devops_issues >>
  /\ UNCHANGED monitoring_vars

(* all_issues, then the correlator on it; `issues` holds all_issues *)
PipelinesCorrelate ==
  /\ call = "analyze_pipelines" /\ pc = "correlate"
  /\ LET all_issues == (IF ret.devops # None THEN devops_issues ELSE <<>>)
                          \o (IF ret.mlops # None THEN mlops_issues ELSE <<>>)
         cross_issues == detect_cross_pipeline_issues(all_issues)
     IN  /\ issues' = all_issues
         /\ ret' = [ k \in DOMAIN ret \cup {"cross_pipeline_issues"} |->
                      IF k = "cross_pipeline_issues"
                      THEN [i \in 1..Len(cross_issues) |-> to_dict(cross_issues[i])]
                      ELSE ret[k] ]
  /\ pc' = "returned"
  /\ UNCHANGED << call, pipeline_type, evidence, ret2, devops_data, mlops_data,
                  devops_pc, mlops_pc, devops_local, mlops_local, devops_issues,
                  mlops_issues >>
  /\ UNCHANGED monitoring_vars

(* DevOpsAgent.analyze on a batch with one graded section *)
InitSections ==
  /\ call = "devops" /\ NoCall
  /\ devops_data \in SectionBatches /\ devops_pc = DevOpsSections[1]
  /\ mlops_data = EmptyDict /\ mlops_pc = "idle"
  /\ devops_local = <<>> /\ mlops_local = <<>>
  /\ devops_issues = <<>> /\ mlops_issues = <<>>
  /\ NoMonitoring

(* one call of optimize: a batch with at most one section and a list of at *)
(* most two Issues, among them Issues that select each template            *)
InitOptimize ==
  /\ call \in {"devops_optimize", "mlops_optimize"} /\ pc = "call"
  /\ issues \in UNION { [1..n -> IssueUniverse
                                   \cup { FlakyTestsDetected([ flaky_tests |-> <<>> ]),
                                          HighDeploymentFailureRate(
                                            [ failure_rate |-> Ratio(1, 2), failed_count |-> 1,
                                              total_count |-> 2 ]),
                                          HighInferenceLatency([ latency_p95 |-> 150 ]) }]
                        : n \in 0..2 }
  /\ devops_data \in IF call = "devops_optimize" THEN SmallDevOpsBatches ELSE {EmptyDict}
  /\ mlops_data \in IF call = "mlops_optimize" THEN SmallMLOpsBatches ELSE {EmptyDict}
  /\ evidence = EmptyDict /\ ret = <<>> /\ ret2 = <<>>
  /\ pipeline_type = "both"
  /\ devops_pc = "idle" /\ mlops_pc = "idle"
  /\ devops_local = <<>> /\ mlops_local = <<>>
  /\ devops_issues = <<>> /\ mlops_issues = <<>>
  /\ NoMonitoring

(* src/src/orchestrator.py: start_monitoring, _check_and_alert,            *)
(* _send_notifications and shutdown.  The loop runs as one task; shutdown  *)
(* is called from another and takes effect between two awaits of the loop. *)
MaxCycles == 2

(* notification_channels is a list of channels, or None when the YAML *)
(* file gives the key no value                                        *)
MonitoringConfigs ==
  [ enable_notifications : BOOLEAN,
    notification_channels : { [ list |-> << "email", "slack" >> ], None } ]

InitMonitoring ==
  /\ call = "start_monitoring" /\ pc = "idle"
  /\ pipeline_type \in PipelineTypes
  /\ issues = <<>> /\ evidence = EmptyDict /\ ret = <<>> /\ ret2 = <<>>
  /\ devops_data = EmptyDict /\ mlops_data = EmptyDict
  /\ devops_pc = "idle" /\ mlops_pc = "idle"
  /\ devops_local = <<>> /\ mlops_local = <<>>
  /\ devops_issues = <<>> /\ mlops_issues = <<>>
  /\ config \in MonitoringConfigs
  /\ monitoring_active = FALSE /\ monitor_pc = "idle"
  /\ cycles = 0 /\ sleeps = 0 /\ notified = <<>>

StartMonitoring ==
  /\ call = "start_monitoring" /\ monitor_pc = "idle"
  /\ monitoring_active' = TRUE
  /\ monitor_pc' = "while"
  /\ UNCHANGED << call, pipeline_type, pc, issues, evidence, ret, ret2, devops_data,
                  mlops_data, devops_pc, mlops_pc, devops_local, mlops_local,
                  devops_issues, mlops_issues, config, cycles, sleeps, notified >>

critical_or_high(result) ==
  IF result # None
  THEN SelectSeq(result.issues, LAMBDA i : Get(i, "severity", None) \in {"critical", "high"})
  ELSE <<>>

(* the except clause with an exception that ends the loop *)
MonitoringExcept_returning ==
  /\ \/ monitor_pc = "analyze" /\ pc = "raised"
     \/ monitor_pc = "alert_raised"
  /\ monitor_pc' = "returned"
  /\ UNCHANGED << call, pipeline_type, pc, issues, evidence, ret, ret2, devops_data,
                  mlops_data, devops_pc, mlops_pc, devops_local, mlops_local,
                  devops_issues, mlops_issues, config, monitoring_active, cycles, sleeps,
                  notified >>

(* the loop test without the test of monitoring_active *)
While_forever ==
  /\ monitor_pc = "while"
  /\ cycles < MaxCycles
  /\ cycles' = cycles + 1
  /\ monitor_pc' = "analyze"
  /\ call' = "analyze_pipelines" /\ pc' = "call"
  /\ issues' = <<>>
  /\ ret' = [ pipeline_type |-> pipeline_type, devops |-> None, mlops |-> None ]
  /\ devops_data' = EmptyDict /\ mlops_data' = EmptyDict
  /\ devops_pc' = "idle" /\ mlops_pc' = "idle"
  /\ devops_issues' = <<>> /\ mlops_issues' = <<>>
  /\ notified' = <<>>
  /\ UNCHANGED << pipeline_type, evidence, ret2, devops_local, mlops_local, config,
                  monitoring_active, sleeps >>

(* _check_and_alert counting the correlator's Issues in *)
CheckAndAlert_with_cross_pipeline_issues ==
  /\ monitor_pc = "analyze" /\ pc = "returned"
  /\ LET critical_issues == critical_or_high(ret.devops) \o critical_or_high(ret.mlops)
                              \o critical_or_high([ issues |-> ret.cross_pipeline_issues ])
     IN  IF critical_issues # <<>> /\ config.enable_notifications
         THEN /\ notified' = << critical_issues >>
              /\ monitor_pc' = IF config.notification_channels = None
                               THEN "alert_raised" ELSE "sleep"
         ELSE /\ monitor_pc' = "sleep"
              /\ UNCHANGED notified
  /\ UNCHANGED << call, pipeline_type, pc, issues, evidence, ret, ret2, devops_data,
                  mlops_data, devops_pc, mlops_pc, devops_local, mlops_local,
                  devops_issues, mlops_issues, config, monitoring_active, cycles, sleeps >>

(* the loop test, and on entry the call of analyze_pipelines with fresh results *)
While ==
  /\ monitor_pc = "while"
  /\ IF monitoring_active
     THEN /\ cycles < MaxCycles
          /\ cycles' = cycles + 1
          /\ monitor_pc' = "analyze"
          /\ call' = "analyze_pipelines" /\ pc' = "call"
          /\ issues' = <<>>
          /\ ret' = [ pipeline_type |-> pipeline_type, devops |-> None, mlops |-> None ]
          /\ devops_data' = EmptyDict /\ mlops_data' = EmptyDict
          /\ devops_pc' = "idle" /\ mlops_pc' = "idle"
          /\ devops_issues' = <<>> /\ mlops_issues' = <<>>
          /\ notified' = <<>>
     ELSE /\ monitor_pc' = "returned"
          /\ call' = "start_monitoring"
          /\ UNCHANGED << pc, issues, ret, devops_data, mlops_data, devops_pc, mlops_pc,
                          devops_issues, mlops_issues, cycles, notified >>
  /\ UNCHANGED << pipeline_type, evidence, ret2, devops_local, mlops_local, config,
                  monitoring_active, sleeps >>

(* _check_and_alert, with _send_notifications when it is called *)
CheckAndAlert ==
  /\ monitor_pc = "analyze" /\ pc = "returned"
  /\ LET critical_issues == critical_or_high(ret.devops) \o critical_or_high(ret.mlops)
     IN  IF critical_issues # <<>> /\ config.enable_notifications
         THEN /\ notified' = << critical_issues >>
              /\ monitor_pc' = IF config.notification_channels = None
                               THEN "alert_raised" ELSE "sleep"
         ELSE /\ monitor_pc' = "sleep"
              /\ UNCHANGED notified
  /\ UNCHANGED << call, pipeline_type, pc, issues, evidence, ret, ret2, devops_data,
                  mlops_data, devops_pc, mlops_pc, devops_local, mlops_local,
                  devops_issues, mlops_issues, config, monitoring_active, cycles, sleeps >>

(* asyncio.sleep(interval) at the end of the try block *)
Sleep ==
  /\ monitor_pc = "sleep"
  /\ sleeps' = sleeps + 1
  /\ monitor_pc' = "while"
  /\ UNCHANGED << call, pipeline_type, pc, issues, evidence, ret, ret2, devops_data,
                  mlops_data, devops_pc, mlops_pc, devops_local, mlops_local,
                  devops_issues, mlops_issues, config, monitoring_active, cycles, notified >>

(* the except clause: the exception of the analysis or of the alerting is *)
(* logged, then asyncio.sleep(interval)                                    *)
MonitoringExcept ==
  /\ \/ monitor_pc = "analyze" /\ pc = "raised"
     \/ monitor_pc = "alert_raised"
  /\ sleeps' = sleeps + 1
  /\ monitor_pc' = "while"
  /\ UNCHANGED << call, pipeline_type, pc, issues, evidence, ret, ret2, devops_data,
                  mlops_data, devops_pc, mlops_pc, devops_local, mlops_local,
                  devops_issues, mlops_issues, config, monitoring_active, cycles, notified >>

(* shutdown: monitoring_task is never assigned, so nothing is cancelled *)
Shutdown ==
  /\ monitoring_active' = FALSE
  /\ UNCHANGED << call, pipeline_type, pc, issues, evidence, ret, ret2, devops_data,
                  mlops_data, devops_pc, mlops_pc, devops_local, mlops_local,
                  devops_issues, mlops_issues, config, monitor_pc, cycles, sleeps,
                  notified >>

(* optimize called again with the same Issue list and another batch *)
DevOpsOptimizeAgain ==
  /\ call = "devops_optimize" /\ pc = "returned"
  /\ \E data \in SmallDevOpsBatches :
       LET r == devops_optimize(data, issues)
       IN  /\ devops_data' = data
           /\ ret2' = r.issues
           /\ pc' = IF r.raised THEN "raised" ELSE "returned2"
  /\ UNCHANGED << call, pipeline_type, issues, evidence, ret, mlops_data, devops_pc,
                  mlops_pc, devops_local, mlops_local, devops_issues, mlops_issues >>
  /\ UNCHANGED monitoring_vars

(* MLOpsAgent.analyze on a batch that holds model metrics only *)
InitModelMetrics ==
  /\ call = "mlops" /\ NoCall
  /\ mlops_data \in { [ model_metrics |-> x ] : x \in ModelMetricLists }
  /\ mlops_pc = MLOpsSections[1]
  /\ devops_data = EmptyDict /\ devops_pc = "idle"
  /\ devops_local = <<>> /\ mlops_local = <<>>
  /\ devops_issues = <<>> /\ mlops_issues = <<>>
  /\ NoMonitoring

(* analyze_and_optimize after analyze_pipelines has returned: the Issues   *)
(* of each result are rebuilt (devops_local, mlops_local hold them) and    *)
(* handed to optimize                                                       *)
Rebuild(dicts) ==
  [ raised |-> \E i \in 1..Len(dicts) : from_dict(dicts[i]).raised,
    issues |-> [ i \in 1..Len(dicts) |-> from_dict(dicts[i]).issues[1] ] ]

OptimizeDevOps ==
  /\ call = "analyze_pipelines" /\ pc = "returned"
  /\ IF ret.devops # None
     THEN LET rebuilt == Rebuild(ret.devops.issues)
              r == devops_optimize(ret.devops.data, rebuilt.issues)
          IN  IF rebuilt.raised \/ r.raised
              THEN pc' = "raised" /\ UNCHANGED << ret, devops_local >>
              ELSE /\ devops_local' = rebuilt.issues
                   /\ ret' = [ k \in DOMAIN ret \cup {"optimizations"} |->
                                IF k = "optimizations"
                                THEN [ devops |-> r.issues, mlops |-> None ]
                                ELSE ret[k] ]
                   /\ pc' = "optimize_mlops"
     ELSE /\ ret' = [ k \in DOMAIN ret \cup {"optimizations"} |->
                       IF k = "optimizations" THEN [ devops |-> None, mlops |-> None ]
                       ELSE ret[k] ]
          /\ pc' = "optimize_mlops"
          /\ UNCHANGED devops_local
  /\ UNCHANGED << call, pipeline_type, issues, evidence, ret2, devops_data, mlops_data,
                  devops_pc, mlops_pc, mlops_local, devops_issues, mlops_issues >>
  /\ UNCHANGED monitoring_vars

OptimizeMLOps ==
  /\ call = "analyze_pipelines" /\ pc = "optimize_mlops"
  /\ IF ret.mlops # None
     THEN LET rebuilt == Rebuild(ret.mlops.issues)
              r == mlops_optimize(ret.mlops.data, rebuilt.issues)
          IN  IF rebuilt.raised \/ r.raised
              THEN pc' = "raised" /\ UNCHANGED << ret, mlops_local >>
              ELSE /\ mlops_local' = rebuilt.issues
                   /\ ret' = [ret EXCEPT !.optimizations.mlops = r.issues]
                   /\ pc' = "optimized"
     ELSE pc' = "optimized" /\ UNCHANGED << ret, mlops_local >>
  /\ UNCHANGED << call, pipeline_type, issues, evidence, ret2, devops_data, mlops_data,
                  devops_pc, mlops_pc, devops_local, devops_issues, mlops_issues >>
  /\ UNCHANGED monitoring_vars

(* one call of the shared capability or of one analyzer *)
Init == InitPrioritize \/ InitSummarize \/ InitConfidence \/ InitDevOps \/ InitMLOps

Next ==
  \/ Prioritize \/ PrioritizeAgain \/ Summarize \/ Confidence
  \/ DevOpsStep \/ DevOpsReturn \/ MLOpsStep \/ MLOpsReturn

Spec == Init /\ [][Next]_vars

(* the two analyses run concurrently, and each agent is called again *)
NextConcurrent ==
  \/ DevOpsStep \/ DevOpsReturn \/ MLOpsStep \/ MLOpsReturn
  \/ DevOpsCall \/ MLOpsCall

SpecConcurrent == InitConcurrent /\ [][NextConcurrent]_vars

(* one call of the correlator *)
SpecDetect == InitDetect /\ [][Detect]_vars

(* one call of analyze_pipelines *)
NextPipelines == PipelinesDevOps \/ PipelinesMLOps \/ PipelinesCorrelate

SpecPipelines == InitPipelines /\ [][NextPipelines]_vars

(* DevOpsAgent.analyze, section by section *)
NextSections == DevOpsStep \/ DevOpsReturn

SpecSections == InitSections /\ [][NextSections]_vars

(* one call that is handed an Issue list *)
InitCalls == InitPrioritize \/ InitSummarize \/ InitDetect \/ InitOptimize

NextCalls == Prioritize \/ Summarize \/ Detect \/ DevOpsOptimize \/ MLOpsOptimize

SpecCalls == InitCalls /\ [][NextCalls]_vars

(* calls of optimize *)
NextOptimize == DevOpsOptimize \/ MLOpsOptimize \/ DevOpsOptimizeAgain

SpecOptimize == InitOptimize /\ [][NextOptimize]_vars

NextModelMetrics == MLOpsStep \/ MLOpsReturn

SpecModelMetrics == InitModelMetrics /\ [][NextModelMetrics]_vars

(* one call of analyze_and_optimize *)
NextAnalyzeAndOptimize == NextPipelines \/ OptimizeDevOps \/ OptimizeMLOps

SpecAnalyzeAndOptimize == InitPipelines /\ [][NextAnalyzeAndOptimize]_vars

(* monitoring mode, with shutdown called at any moment *)
NextMonitoring ==
  \/ StartMonitoring \/ While \/ NextPipelines \/ CheckAndAlert \/ Sleep
  \/ MonitoringExcept \/ Shutdown

SpecMonitoring == InitMonitoring /\ [][NextMonitoring]_vars

(* the cycle's call of analyze_pipelines has neither returned nor raised *)
AnalysisPending ==
  monitor_pc = "analyze" /\ pc \in {"call", "mlops", "correlate"}

(* the event loop runs the monitoring task up to its next await, and the *)
(* awaited analysis and sleep complete; shutdown need never be called.   *)
(* The steps of the analysis are those of NextPipelines, so weak         *)
(* fairness of NextPipelines is that the analysis is not pending for     *)
(* ever.                                                                 *)
FairMonitoring ==
  /\ WF_vars(StartMonitoring) /\ WF_vars(While)
  /\ WF_vars(CheckAndAlert) /\ WF_vars(Sleep) /\ WF_vars(MonitoringExcept)
  /\ []<>(~AnalysisPending)

SpecMonitoringLive == SpecMonitoring /\ FairMonitoring

----------------------------------------------------------------------------
(* properties *)

(* the severity rank and the ordering as the specification states them *)
Rank(x) ==
  CASE x.severity = "critical" -> 4
    [] x.severity = "high" -> 3
    [] x.severity = "medium" -> 2
    [] x.severity = "low" -> 1
    [] OTHER -> 0

NotBefore(x, y) ==
  Rank(x) > Rank(y) \/ (Rank(x) = Rank(y) /\ x.confidence >= y.confidence)

Ordered(list) ==
  \A i \in 1..Len(list) : \A j \in (i + 1)..Len(list) : NotBefore(list[i], list[j])

Range(list) == { list[i] : i \in 1..Len(list) }

Occurrences(list, x) == Cardinality({ i \in 1..Len(list) : list[i] = x })

IsPermutation(a, b) ==
  /\ Len(a) = Len(b)
  /\ \A x \in Range(a) \cup Range(b) : Occurrences(a, x) = Occurrences(b, x)

Tied(x, y) == Rank(x) = Rank(y) /\ x.confidence = y.confidence

(* two different issues that tie, the first before an issue that outranks it *)
HasMovedTie(list) ==
  \E i \in 1..Len(list) : \E j \in (i + 1)..Len(list) :
    /\ list[i] # list[j] /\ Tied(list[i], list[j])
    /\ \E k \in (i + 1)..Len(list) : Rank(list[k]) > Rank(list[i])

(* C1: prioritize(I) is a permutation of I in which every issue is followed *)
(* only by issues of lower-or-equal severity rank and, at equal rank, of    *)
(* lower-or-equal confidence; DevOpsAgent.analyze and MLOpsAgent.analyze    *)
(* return the issues their sub-checks found in exactly this order.          *)
PrioritizeOrdersIssues ==
  /\ (call = "prioritize" /\ pc \in {"returned", "returned2"})
       => (IsPermutation(ret, issues) /\ Ordered(ret))
  /\ devops_pc = "done"
       => (IsPermutation(devops_issues, devops_local) /\ Ordered(devops_issues))
  /\ mlops_pc = "done"
       => (IsPermutation(mlops_issues, mlops_local) /\ Ordered(mlops_issues))

PrioritizeReorderedIssues ==
  /\ call = "prioritize" /\ pc = "returned"
  /\ Len(ret) >= 3 /\ ret # issues
  /\ Cardinality({ Rank(issues[i]) : i \in 1..Len(issues) }) >= 3

(* C2: prioritize(prioritize(I)) equals prioritize(I) element by element,   *)
(* also when I holds several issues of identical severity and confidence.   *)
PrioritizeIsIdempotent ==
  (call = "prioritize" /\ pc = "returned2") => ret2 = ret

PrioritizedTwiceWithTies ==
  /\ call = "prioritize" /\ pc = "returned2"
  /\ HasMovedTie(issues)
  /\ ret # issues

(* C3: prioritize is stable: issues of the input with the same severity     *)
(* rank and the same confidence appear in the output in the same relative   *)
(* order as in the input.                                                   *)
PrioritizeIsStable ==
  (call = "prioritize" /\ pc \in {"returned", "returned2"})
    => \A x \in Range(issues) :
         SelectSeq(ret, LAMBDA y : Tied(x, y)) = SelectSeq(issues, LAMBDA y : Tied(x, y))

PrioritizedWithTies ==
  /\ call = "prioritize" /\ pc = "returned"
  /\ HasMovedTie(issues)
  /\ Len(issues) = MaxLen

(* the weighted sum of the specification, in hundredths *)
WeightedSum(ev) ==
  (IF "pattern_match" \in DOMAIN ev THEN 3 * ev["pattern_match"] ELSE 0)
    + (IF "statistical_significance" \in DOMAIN ev
       THEN 4 * ev["statistical_significance"] ELSE 0)
    + (IF "historical_data" \in DOMAIN ev THEN 3 * ev["historical_data"] ELSE 0)

(* C4: the confidence score is the sum of weight * value over the keys      *)
(* pattern_match (0.3), statistical_significance (0.4), historical_data     *)
(* (0.3) that are present, clamped to [0, 1]: never below 0 or above 1, 0   *)
(* for the empty mapping, other keys contribute nothing, and a weighted sum *)
(* above 1 gives exactly 1.                                                 *)
ConfidenceIsClampedWeightedSum ==
  (call = "confidence" /\ pc = "returned")
    => /\ ret >= 0 /\ ret <= 100
       /\ ret = (IF WeightedSum(evidence) < 0 THEN 0
                 ELSE IF WeightedSum(evidence) > 100 THEN 100
                 ELSE WeightedSum(evidence))
       /\ evidence = EmptyDict => ret = 0
       /\ WeightedSum(evidence) > 100 => ret = 100
       /\ \A other \in EvidenceMaps :
            (\A k \in {"pattern_match", "statistical_significance", "historical_data"} :
               (k \in DOMAIN other <=> k \in DOMAIN evidence)
                 /\ (k \in DOMAIN other => other[k] = evidence[k]))
              => ret = calculate_confidence(other)

ConfidenceClampedFromAbove ==
  /\ call = "confidence" /\ pc = "returned"
  /\ WeightedSum(evidence) > 100
  /\ "expert_review" \in DOMAIN evidence
  /\ ret = 100

RECURSIVE DictTotal(_)
DictTotal(d) ==
  IF DOMAIN d = {} THEN 0
  ELSE LET k == CHOOSE x \in DOMAIN d : TRUE
       IN  d[k] + DictTotal([x \in DOMAIN d \ {k} |-> d[x]])

CountsOf(list, field, d) ==
  /\ DOMAIN d = { list[i][field] : i \in 1..Len(list) }
  /\ \A v \in DOMAIN d : d[v] = Cardinality({ i \in 1..Len(list) : list[i][field] = v })
  /\ DictTotal(d) = Len(list)

(* C5: summarize(I) has total equal to the length of I, by_severity maps    *)
(* each severity occurring in I to its number of occurrences, by_category   *)
(* does the same for categories, the counts of each map sum to total, and   *)
(* the empty list gives {total: 0, by_severity: {}, by_category: {}}.       *)
SummaryCountsIssues ==
  (call = "summary" /\ pc = "returned")
    => /\ ret.total = Len(issues)
       /\ CountsOf(issues, "severity", ret.by_severity)
       /\ CountsOf(issues, "category", ret.by_category)
       /\ issues = <<>>
            => ret = [ total |-> 0, by_severity |-> EmptyDict, by_category |-> EmptyDict ]

SummaryOfSeveralCategories ==
  /\ call = "summary" /\ pc = "returned"
  /\ Cardinality(DOMAIN ret.by_category) >= 2
  /\ Cardinality(DOMAIN ret.by_severity) >= 3
  /\ \E c \in DOMAIN ret.by_category : ret.by_category[c] >= 2

(* a section that is absent from the batch, or present and empty *)
NoData(data, section) ==
  section \notin DOMAIN data \/ data[section] = <<>> \/ data[section] = EmptyDict

(* C6: for both analyzers a section that is absent from (or empty in) the   *)
(* batch is no data: its sub-check emits no Issue and raises no error, so   *)
(* analyze on a batch with no sections returns the empty list, the ML       *)
(* analyzer with the inference-metrics section absent included.             *)
AbsentSectionsYieldNoIssues ==
  /\ \A i \in 1..Len(DevOpsSections) :
       (devops_pc = PcAfter(DevOpsSections, i) /\ NoData(devops_data, DevOpsSections[i]))
         => devops_local = DevOpsCollect(devops_data, i - 1).issues
  /\ \A i \in 1..Len(MLOpsSections) :
       (mlops_pc = PcAfter(MLOpsSections, i) /\ NoData(mlops_data, MLOpsSections[i]))
         => mlops_local = MLOpsCollect(mlops_data, i - 1).issues
  /\ (call = "devops" /\ devops_data = EmptyDict) => devops_pc # "raised"
  /\ (call = "mlops" /\ mlops_data = EmptyDict) => mlops_pc # "raised"
  /\ (devops_pc = "done" /\ devops_data = EmptyDict) => devops_issues = <<>>
  /\ (mlops_pc = "done" /\ mlops_data = EmptyDict) => mlops_issues = <<>>

(* C7: no sub-check failure is fatal to analyze: with a malformed record in *)
(* one section analyze does not raise, and the Issues of every other        *)
(* sub-check are still returned.                                            *)
MalformedRecordIsNotFatal ==
  /\ devops_pc # "raised"
  /\ mlops_pc # "raised"
  /\ devops_pc = "done"
       => \A i \in 1..Len(DevOpsSections) :
            LET r == DevOpsSubcheck(DevOpsSections[i], devops_data)
            IN  ~r.raised => Range(r.issues) \subseteq Range(devops_issues)
  /\ mlops_pc = "done"
       => \A i \in 1..Len(MLOpsSections) :
            LET r == MLOpsSubcheck(MLOpsSections[i], mlops_data)
            IN  ~r.raised => Range(r.issues) \subseteq Range(mlops_issues)

(* the number of sub-checks a call at position p has run *)
StepsRun(sections, p) ==
  IF \E i \in 1..Len(sections) : sections[i] = p
  THEN (CHOOSE i \in 1..Len(sections) : sections[i] = p) - 1
  ELSE Len(sections)

(* C8: running the delivery-pipeline analysis and the ML-pipeline analysis  *)
(* concurrently is safe: in every interleaving of their sub-check steps     *)
(* each analyzer collects and returns exactly the Issue list it returns     *)
(* when run alone on its batch, on a first call and on a later call.        *)
ConcurrentAnalysesAreIndependent ==
  /\ devops_pc = "raised" => DevOpsAnalyze(devops_data).raised
  /\ devops_pc = "done" => DevOpsAnalyze(devops_data) = Ok(devops_issues)
  /\ devops_pc \notin {"raised", "done", "idle"}
       => DevOpsCollect(devops_data, StepsRun(DevOpsSections, devops_pc)) = Ok(devops_local)
  /\ mlops_pc = "raised" => MLOpsAnalyze(mlops_data).raised
  /\ mlops_pc = "done" => MLOpsAnalyze(mlops_data) = Ok(mlops_issues)
  /\ mlops_pc \notin {"raised", "done", "idle"}
       => MLOpsCollect(mlops_data, StepsRun(MLOpsSections, mlops_pc)) = Ok(mlops_local)

BothAnalysesReturnedIssues ==
  /\ call = "both"
  /\ devops_pc = "done" /\ mlops_pc = "done"
  /\ Len(devops_issues) >= 2 /\ Len(mlops_issues) >= 2
  /\ Range(devops_issues) \cap Range(mlops_issues) = {}

(* the cascading-failure Issues of a correlator result *)
CascadingIn(list) == SelectSeq(list, LAMBDA i : i.title = "Cascading Failures Detected")

BuildFailuresIn(list) ==
  { k \in 1..Len(list) : InLower("build", list[k].title)
                           /\ list[k].severity \in {"high", "critical"} }

DeploymentFailuresIn(list) ==
  { k \in 1..Len(list) : InLower("deployment", list[k].title) }

(* C9: the correlator emits exactly one cascading-failure Issue (critical,  *)
(* reliability, metadata carrying both counts) if and only if the input     *)
(* holds an issue whose title contains "build" (case-insensitive) with      *)
(* severity high or critical and an issue whose title contains              *)
(* "deployment"; with one of the two kinds only, or with build-titled       *)
(* issues of severity medium or low only, it emits none.                    *)
CascadingFailureIffBuildAndDeployment ==
  (call = "detect" /\ pc = "returned")
    => IF BuildFailuresIn(issues) # {} /\ DeploymentFailuresIn(issues) # {}
       THEN /\ Len(CascadingIn(ret)) = 1
            /\ CascadingIn(ret)[1].severity = "critical"
            /\ CascadingIn(ret)[1].category = "reliability"
            /\ CascadingIn(ret)[1].metadata
                 = [ build_failures |-> Cardinality(BuildFailuresIn(issues)),
                     deployment_failures |-> Cardinality(DeploymentFailuresIn(issues)) ]
       ELSE CascadingIn(ret) = <<>>

CascadingFailureEmitted ==
  /\ call = "detect" /\ pc = "returned"
  /\ CascadingIn(ret) # <<>>
  /\ Cardinality(BuildFailuresIn(issues)) >= 2
  /\ \E k \in 1..Len(issues) : issues[k].title = "Slow Build Times"

(* the systemic Issues of a correlator result for one category *)
SystemicIn(list, category) ==
  SelectSeq(list, LAMBDA i : "issue_count" \in DOMAIN i.metadata /\ i.category = category)

CategoryCount(list, category) ==
  Cardinality({ k \in 1..Len(list) : list[k].category = category })

(* C10: the correlator emits exactly one systemic Issue (severity high,     *)
(* same category, metadata issue_count equal to the count) for each         *)
(* category that occurs at least 5 times in the input and none for a        *)
(* category that occurs fewer than 5 times; several categories can trigger  *)
(* in the same call.                                                        *)
SystemicIssuePerFrequentCategory ==
  (call = "detect" /\ pc = "returned")
    => \A c \in { x.category : x \in Range(issues) \cup Range(ret) } :
         IF CategoryCount(issues, c) >= 5
         THEN /\ Len(SystemicIn(ret, c)) = 1
              /\ SystemicIn(ret, c)[1].severity = "high"
              /\ SystemicIn(ret, c)[1].metadata.issue_count = CategoryCount(issues, c)
         ELSE SystemicIn(ret, c) = <<>>

TwoSystemicIssuesEmitted ==
  /\ call = "detect" /\ pc = "returned"
  /\ \E c, d \in { x.category : x \in Range(issues) } :
       /\ c # d
       /\ CategoryCount(issues, c) = 5 /\ SystemicIn(ret, c) # <<>>
       /\ CategoryCount(issues, d) > 5 /\ SystemicIn(ret, d) # <<>>

(* the resource-bottleneck Issues of a correlator result *)
BottleneckIn(list) ==
  SelectSeq(list, LAMBDA i : i.title = "System-Wide Resource Constraints")

ResourceIssuesIn(list) ==
  { k \in 1..Len(list) :
      /\ list[k].category = "performance"
      /\ \E keyword \in {"cpu", "memory", "resource", "gpu"} : InLower(keyword, list[k].title) }

(* C11: the correlator emits exactly one resource-bottleneck Issue (high,   *)
(* performance) if and only if at least 2 input issues have category        *)
(* performance and a title containing one of cpu, memory, resource, gpu     *)
(* (case-insensitive); issues of another category with such a title are not *)
(* counted, and with exactly 1 matching issue none is emitted.              *)
ResourceBottleneckIffTwoPerformanceIssues ==
  (call = "detect" /\ pc = "returned")
    => IF Cardinality(ResourceIssuesIn(issues)) >= 2
       THEN /\ Len(BottleneckIn(ret)) = 1
            /\ BottleneckIn(ret)[1].severity = "high"
            /\ BottleneckIn(ret)[1].category = "performance"
            /\ BottleneckIn(ret)[1].metadata
                 = [ resource_issue_count |-> Cardinality(ResourceIssuesIn(issues)) ]
       ELSE BottleneckIn(ret) = <<>>

ResourceBottleneckEmitted ==
  /\ call = "detect" /\ pc = "returned"
  /\ BottleneckIn(ret) # <<>>
  /\ Cardinality(ResourceIssuesIn(issues)) = 2
  /\ \E k \in 1..Len(issues) : issues[k].title = "Low GPU Utilization"

(* C12: the correlator never fails on an empty issue list: detect([])       *)
(* returns the empty list without raising, which is also what the           *)
(* orchestrator obtains when neither analyzer ran or both returned no       *)
(* issues.                                                                  *)
EmptyIssueListYieldsNoCrossIssues ==
  /\ (call = "analyze_pipelines" /\ pc = "returned" /\ issues = <<>>)
       => ret.cross_pipeline_issues = <<>>
  /\ (call = "analyze_pipelines" /\ pc = "returned"
        /\ pipeline_type \notin {"devops", "mlops", "both"})
       => (issues = <<>> /\ ret.devops = None /\ ret.mlops = None)
  /\ (call = "analyze_pipelines" /\ pc = "raised")
       => (devops_pc = "raised" \/ mlops_pc = "raised")

BothAnalyzersFoundNothing ==
  /\ call = "analyze_pipelines" /\ pc = "returned"
  /\ pipeline_type = "both"
  /\ devops_pc = "done" /\ mlops_pc = "done"
  /\ issues = <<>>
  /\ ret.cross_pipeline_issues = <<>>

(* C14: the issue list that the orchestrator passes to the correlator is in *)
(* prioritized order: over the whole list (delivery-pipeline issues and     *)
(* ML-pipeline issues together) every issue is followed only by issues of   *)
(* lower-or-equal (severity rank, confidence).                              *)
CorrelatorInputIsPrioritized ==
  (call = "analyze_pipelines" /\ pc = "returned") => Ordered(issues)

(* the Issues of a result that carry a title *)
Titled(list, title) == SelectSeq(list, LAMBDA i : i.title = title)

SuccessfulBuilds(builds) == SelectSeq(builds, LAMBDA b : b.status = "success")

RECURSIVE TotalDuration(_)
TotalDuration(builds) ==
  IF builds = <<>> THEN 0 ELSE builds[1].duration.num + TotalDuration(Tail(builds))

(* C15: the delivery analyzer emits the slow-build Issue (medium,           *)
(* performance, metadata avg_duration and sample_size) if and only if at    *)
(* least one build has status success and the average duration over the     *)
(* successful builds only exceeds 600 strictly; for 20 successful builds    *)
(* averaging 650 it emits exactly that Issue, with avg_duration 650, and no *)
(* build-failure Issue.                                                     *)
SlowBuildIffSuccessfulAverageAbove600 ==
  (devops_pc = "done" /\ "builds" \in DOMAIN devops_data)
    => LET builds == devops_data.builds
           good == SuccessfulBuilds(builds)
           slow == Titled(devops_issues, "Slow Build Times")
       IN  /\ IF Len(good) >= 1 /\ TotalDuration(good) > 600 * Len(good)
              THEN /\ Len(slow) = 1
                   /\ slow[1].severity = "medium" /\ slow[1].category = "performance"
                   /\ DOMAIN slow[1].metadata = {"avg_duration", "sample_size"}
                   /\ slow[1].metadata.avg_duration.num * Len(good)
                        = TotalDuration(good) * slow[1].metadata.avg_duration.den
                   /\ slow[1].metadata.sample_size = Len(good)
              ELSE slow = <<>>
           /\ (Len(builds) = 20 /\ Len(good) = 20 /\ TotalDuration(good) = 20 * 650)
                => /\ Len(devops_issues) = 1
                   /\ devops_issues[1].title = "Slow Build Times"
                   /\ devops_issues[1].metadata.avg_duration = [ num |-> 650, den |-> 1 ]

TwentySlowBuildsAnalyzed ==
  /\ devops_pc = "done" /\ "builds" \in DOMAIN devops_data
  /\ Len(devops_data.builds) = 20
  /\ Len(SuccessfulBuilds(devops_data.builds)) = 20
  /\ TotalDuration(devops_data.builds) = 20 * 650
  /\ Len(devops_issues) = 1

FailedBuilds(builds) == SelectSeq(builds, LAMBDA b : b.status = "failed")

(* C16: the delivery analyzer emits the build-failure Issue (high,          *)
(* reliability) if and only if failed / total > 0.15 strictly, total        *)
(* counting every build record whatever its status and failed those with    *)
(* status failed; a rate of exactly 0.15 (3 failed of 20) emits none, and   *)
(* the check does not depend on the slow-build check.                       *)
BuildFailureIffRateAbove15Percent ==
  (devops_pc = "done" /\ "builds" \in DOMAIN devops_data)
    => LET builds == devops_data.builds
           failed == Len(FailedBuilds(builds))
           failing == Titled(devops_issues, "High Build Failure Rate")
       IN  IF builds # <<>> /\ 100 * failed > 15 * Len(builds)
           THEN /\ Len(failing) = 1
                /\ failing[1].severity = "high" /\ failing[1].category = "reliability"
                /\ failing[1].metadata.failed_count = failed
                /\ failing[1].metadata.total_count = Len(builds)
           ELSE failing = <<>>

ThreeFailedOfTwentyBuilds ==
  /\ devops_pc = "done" /\ "builds" \in DOMAIN devops_data
  /\ Len(devops_data.builds) = 20
  /\ Len(FailedBuilds(devops_data.builds)) = 3
  /\ Titled(devops_issues, "High Build Failure Rate") = <<>>
  /\ Titled(devops_issues, "Slow Build Times") # <<>>

NamedExecutions(tests) == SelectSeq(tests, LAMBDA t : "name" \in DOMAIN t)

Executions(tests, n) == SelectSeq(NamedExecutions(tests), LAMBDA t : t.name = n)

(* the executions of a test that did not pass: the failures of its ratio *)
NotPassed(tests, n) == SelectSeq(Executions(tests, n), LAMBDA t : t.status # "passed")

FlakyNames(tests) ==
  { n \in { NamedExecutions(tests)[k].name : k \in 1..Len(NamedExecutions(tests)) } :
      /\ Len(Executions(tests, n)) >= 2
      /\ 10 * Len(NotPassed(tests, n)) > Len(Executions(tests, n))
      /\ 10 * Len(NotPassed(tests, n)) < 9 * Len(Executions(tests, n)) }

(* C17: a test name is classified flaky if and only if it has at least 2    *)
(* recorded executions and its failure ratio failed / total lies strictly   *)
(* between 0.1 and 0.9; the analyzer emits exactly one flaky-tests Issue    *)
(* (high, reliability) naming the flaky tests when at least one test is     *)
(* flaky and none otherwise; a 6 pass / 4 fail split is flaky, all-pass and *)
(* all-fail histories and ratios of exactly 0.1 or 0.9 are not.             *)
FlakyIffRatioStrictlyBetween ==
  (devops_pc = "done" /\ "tests" \in DOMAIN devops_data)
    => LET flaky == FlakyNames(devops_data.tests)
           found == Titled(devops_issues, "Flaky Tests Detected")
       IN  IF flaky # {}
           THEN /\ Len(found) = 1 /\ Len(devops_issues) = 1
                /\ found[1].severity = "high" /\ found[1].category = "reliability"
                /\ { found[1].metadata.flaky_tests[k].name :
                       k \in 1..Len(found[1].metadata.flaky_tests) } = flaky
                /\ Len(found[1].metadata.flaky_tests) = Cardinality(flaky)
           ELSE devops_issues = <<>>

TwoFlakyTestsOneIssue ==
  /\ devops_pc = "done" /\ "tests" \in DOMAIN devops_data
  /\ Len(Executions(devops_data.tests, "test_api")) = 10
  /\ Len(NotPassed(devops_data.tests, "test_api")) = 4
  /\ FlakyNames(devops_data.tests) = {"test_api", "test_auth"}
  /\ Len(devops_issues) = 1

Timestamped(deployments) ==
  SelectSeq(deployments, LAMBDA d : "timestamp" \in DOMAIN d /\ d.timestamp # "")

(* C18: the deployment-failure Issue (critical, reliability) is emitted if  *)
(* and only if, among the deployment records that carry a timestamp,        *)
(* failed / total > 0.1 strictly; records without a timestamp enter neither *)
(* count, and a section in which no record carries a timestamp yields no    *)
(* Issue and no failure of the analysis.                                    *)
DeploymentFailureIffTimestampedRateAbove10Percent ==
  ("deployments" \in DOMAIN devops_data)
    => /\ devops_pc # "raised"
       /\ devops_pc = "done"
            => LET recent == Timestamped(devops_data.deployments)
                   failed == Len(SelectSeq(recent, LAMBDA d : d.status = "failed"))
                   found == Titled(devops_issues, "High Deployment Failure Rate")
               IN  IF recent # <<>> /\ 10 * failed > Len(recent)
                   THEN /\ Len(found) = 1 /\ Len(devops_issues) = 1
                        /\ found[1].severity = "critical"
                        /\ found[1].category = "reliability"
                        /\ found[1].metadata.failed_count = failed
                        /\ found[1].metadata.total_count = Len(recent)
                   ELSE devops_issues = <<>>

DeploymentFailureAmongUntimestamped ==
  /\ devops_pc = "done" /\ "deployments" \in DOMAIN devops_data
  /\ Len(Timestamped(devops_data.deployments)) = 9
  /\ Len(devops_data.deployments) = 12
  /\ Len(devops_issues) = 1
  /\ devops_issues[1].metadata.failed_count = 1

VulnerabilitiesOf(scan, severity) ==
  IF "vulnerabilities" \in DOMAIN scan
  THEN SelectSeq(scan.vulnerabilities, LAMBDA v : v.severity = severity)
  ELSE <<>>

(* C19: for each security scan taken separately, a critical / security      *)
(* Issue is emitted iff the scan contains at least 1 critical               *)
(* vulnerability, and a separate high / security Issue iff the scan         *)
(* contains strictly more than 5 high-severity vulnerabilities (exactly 5   *)
(* emits none); the two are independent: one scan yields 0, 1 or 2 Issues   *)
(* and n scans up to 2n.                                                    *)
SecurityIssuesPerScan ==
  (devops_pc = "done" /\ "security_scans" \in DOMAIN devops_data)
    => LET scans == devops_data.security_scans
           criticals(k) == Len(VulnerabilitiesOf(scans[k], "critical"))
           highs(k) == Len(VulnerabilitiesOf(scans[k], "high"))
           critical == Titled(devops_issues, "Critical Security Vulnerabilities Detected")
           high == Titled(devops_issues, "Multiple High-Severity Vulnerabilities")
       IN  /\ Len(critical) = Cardinality({ k \in 1..Len(scans) : criticals(k) >= 1 })
           /\ Len(high) = Cardinality({ k \in 1..Len(scans) : highs(k) > 5 })
           /\ Len(devops_issues) = Len(critical) + Len(high)
           /\ Len(devops_issues) <= 2 * Len(scans)
           /\ { critical[i].metadata.critical_count : i \in 1..Len(critical) }
                = { criticals(k) : k \in { j \in 1..Len(scans) : criticals(j) >= 1 } }
           /\ { high[i].metadata.high_count : i \in 1..Len(high) }
                = { highs(k) : k \in { j \in 1..Len(scans) : highs(j) > 5 } }
           /\ \A i \in 1..Len(critical) :
                critical[i].severity = "critical" /\ critical[i].category = "security"
           /\ \A i \in 1..Len(high) :
                high[i].severity = "high" /\ high[i].category = "security"

TwoScansThreeIssues ==
  /\ devops_pc = "done" /\ "security_scans" \in DOMAIN devops_data
  /\ Len(devops_data.security_scans) = 2
  /\ Len(VulnerabilitiesOf(devops_data.security_scans[1], "critical")) = 1
  /\ Len(VulnerabilitiesOf(devops_data.security_scans[1], "high")) = 6
  /\ Len(VulnerabilitiesOf(devops_data.security_scans[2], "critical")) = 2
  /\ Len(VulnerabilitiesOf(devops_data.security_scans[2], "high")) = 5
  /\ Len(devops_issues) = 3

Available(d) == IF "available_replicas" \in DOMAIN d THEN d.available_replicas ELSE 0

Desired(d) == IF "desired_replicas" \in DOMAIN d THEN d.desired_replicas ELSE 0

ZeroAvailable(deployments) == SelectSeq(deployments, LAMBDA d : Available(d) = 0)

UnderScaled(deployments) ==
  SelectSeq(deployments, LAMBDA d : 0 < Available(d) /\ Available(d) < Desired(d))

(* C20 as stated: in the cluster-health check, whenever at least one        *)
(* cluster deployment has zero available replicas the analyzer emits the    *)
(* critical zero-availability Issue, and whenever at least one deployment   *)
(* has more than 0 but fewer than desired available replicas it emits the   *)
(* high under-scaled Issue.                                                 *)
ZeroAvailableReplicasAlwaysCritical ==
  (devops_pc = "done" /\ "kubernetes" \in DOMAIN devops_data)
    => LET deployments == devops_data.kubernetes.deployments
       IN  /\ ZeroAvailable(deployments) # <<>>
                => Titled(devops_issues,
                          "Kubernetes Deployments with Zero Availability") # <<>>
           /\ UnderScaled(deployments) # <<>>
                => Titled(devops_issues, "Under-Scaled Kubernetes Deployments") # <<>>

(* C20, amended: in the cluster-health check, whenever at least one cluster  *)
(* deployment with desired replicas above 0 has zero available replicas the *)
(* analyzer emits the critical zero-availability Issue, and whenever at     *)
(* least one deployment has more than 0 but fewer than desired available    *)
(* replicas it emits the high under-scaled Issue, each of them once and in  *)
(* no other case; each deployment is counted in at most one of the two      *)
(* groups, and both Issues can be emitted in the same run.                  *)
ZeroAvailableOfDesiredIsCritical ==
  (devops_pc = "done" /\ "kubernetes" \in DOMAIN devops_data)
    => LET deployments == devops_data.kubernetes.deployments
           down == SelectSeq(ZeroAvailable(deployments), LAMBDA d : Desired(d) > 0)
           under == UnderScaled(deployments)
           zero == Titled(devops_issues, "Kubernetes Deployments with Zero Availability")
           scaled == Titled(devops_issues, "Under-Scaled Kubernetes Deployments")
       IN  /\ Len(zero) = (IF down # <<>> THEN 1 ELSE 0)
           /\ Len(scaled) = (IF under # <<>> THEN 1 ELSE 0)
           /\ Len(devops_issues) = Len(zero) + Len(scaled)
           /\ zero # <<>>
                => /\ zero[1].severity = "critical"
                   /\ Len(zero[1].metadata.failed_deployments) = Len(down)
           /\ scaled # <<>>
                => /\ scaled[1].severity = "high"
                   /\ Len(scaled[1].metadata.underscaled_deployments) = Len(under)
           /\ (IF zero # <<>> THEN Len(zero[1].metadata.failed_deployments) ELSE 0)
                + (IF scaled # <<>>
                   THEN Len(scaled[1].metadata.underscaled_deployments) ELSE 0)
                <= Len(deployments)

BothClusterDeploymentIssuesEmitted ==
  /\ devops_pc = "done" /\ "kubernetes" \in DOMAIN devops_data
  /\ Len(devops_data.kubernetes.deployments) = 3
  /\ \E k \in 1..3 : /\ Desired(devops_data.kubernetes.deployments[k]) = 0
                     /\ Available(devops_data.kubernetes.deployments[k]) = 0
  /\ Len(devops_issues) = 2
  /\ Len(devops_issues[1].metadata.failed_deployments) = 1
  /\ Len(devops_issues[2].metadata.underscaled_deployments) = 1

(* C13: no component mutates a previously returned Issue or the list that   *)
(* holds it: a call of prioritize, summarize, optimize or the correlator's  *)
(* detect on an Issue list leaves that list with the same length, the same  *)
(* order and the same field values in every Issue; the result is returned   *)
(* apart from it.                                                           *)
CallsLeaveIssueListUnchanged ==
  [][ (call \in {"prioritize", "summary", "detect", "devops_optimize", "mlops_optimize"})
        => (issues' = issues) ]_vars

OptimizeReturnedForUnorderedList ==
  /\ call = "devops_optimize" /\ pc = "returned"
  /\ Len(issues) = 2 /\ ~Ordered(issues)
  /\ Len(ret) >= 5

ExceptCaching(optimizations) ==
  SelectSeq(optimizations, LAMBDA o : o.title # "Implement Build Caching")

AppendOrder ==
  << "Implement Build Caching", "Improve Test Suite Reliability",
     "Implement Blue-Green Deployments", "Optimize Resource Allocation",
     "Implement Kubernetes Best Practices", "Optimize Kubernetes Resource Utilization",
     "Improve Kubernetes Deployment Speed and Reliability",
     "Implement Distributed Training", "Optimize Model for Inference",
     "Implement Automated Data Quality Monitoring",
     "Implement Automated Model Retraining Pipeline",
     "Optimize Training and Inference Costs" >>

Appended(title) == CHOOSE k \in 1..Len(AppendOrder) : AppendOrder[k] = title

(* C22: for every batch and Issue list, the Optimization list returned by   *)
(* optimize (both analyzers) is sorted ascending by priority: no            *)
(* optimization is followed by one with a smaller priority number, and      *)
(* optimizations of equal priority keep the order in which their templates  *)
(* were appended.                                                           *)
OptimizationsSortedByPriority ==
  (call \in {"devops_optimize", "mlops_optimize"} /\ pc = "returned")
    => \A i, j \in 1..Len(ret) :
         i < j => /\ ret[i].priority <= ret[j].priority
                  /\ ret[i].priority = ret[j].priority
                       => Appended(ret[i].title) < Appended(ret[j].title)

OptimizationsReorderedByPriority ==
  /\ call = "devops_optimize" /\ pc = "returned"
  /\ Len(ret) = 3
  /\ ret[1].title = "Implement Build Caching"
  /\ ret[2].title = "Implement Blue-Green Deployments"
  /\ ret[3].title = "Improve Test Suite Reliability"

TitlesOf(optimizations, title) == SelectSeq(optimizations, LAMBDA o : o.title = title)

(* C25: for every batch and every Issue list (an empty batch and an empty   *)
(* Issue list included), the ML analyzer's optimize output contains the     *)
(* automated-retraining template and the cost-optimization template exactly *)
(* once each; the distributed-training template is present iff the batch    *)
(* has at least one training run, the model-optimization template iff some  *)
(* Issue has category performance and a title containing 'inference', and   *)
(* the data-quality-monitoring template iff some Issue has category         *)
(* quality.                                                                 *)
MLOptimizeTemplates ==
  (call = "mlops_optimize" /\ pc \in {"returned", "raised"})
    => LET runs == IF "training_runs" \in DOMAIN mlops_data
                   THEN mlops_data.training_runs ELSE <<>>
           Present1(title) == Len(TitlesOf(ret, title)) = 1
           Absent0(title) == TitlesOf(ret, title) = <<>>
       IN  /\ pc = "returned"
           /\ Present1("Implement Automated Model Retraining Pipeline")
           /\ Present1("Optimize Training and Inference Costs")
           /\ IF Len(runs) >= 1
              THEN Present1("Implement Distributed Training")
              ELSE Absent0("Implement Distributed Training")
           /\ IF \E k \in 1..Len(issues) :
                   /\ issues[k].category = "performance"
                   /\ issues[k].title \in { "High Inference Latency",
                                            "Low Inference Throughput",
                                            "High Inference Error Rate" }
              THEN Present1("Optimize Model for Inference")
              ELSE Absent0("Optimize Model for Inference")
           /\ IF \E k \in 1..Len(issues) : issues[k].category = "quality"
              THEN Present1("Implement Automated Data Quality Monitoring")
              ELSE Absent0("Implement Automated Data Quality Monitoring")
           /\ Len(ret) <= 5

MLOptimizeOfNothing ==
  /\ call = "mlops_optimize" /\ pc = "returned"
  /\ mlops_data = EmptyDict /\ issues = <<>>
  /\ Len(ret) = 2

(* the points of a section in time order (timestamps 1..n) *)
ByTimestamp(points) ==
  [ k \in 1..Len(points) |-> CHOOSE p \in Range(points) : p.timestamp = k ]

RECURSIVE TotalAccuracy(_)
TotalAccuracy(points) ==
  IF points = <<>> THEN 0 ELSE points[1].accuracy + TotalAccuracy(Tail(points))

RecentWindow(sorted) == SubSeq(sorted, IF Len(sorted) > 5 THEN Len(sorted) - 4 ELSE 1, Len(sorted))

PrecedingWindow(sorted) ==
  IF Len(sorted) >= 10 THEN SubSeq(sorted, Len(sorted) - 9, Len(sorted) - 5)
  ELSE SubSeq(sorted, 1, Len(sorted) - 5)

(* C23: with the model-metric points sorted by timestamp, the ML analyzer   *)
(* compares the mean accuracy of the last 5 points with the mean of the     *)
(* preceding window (the 5 points before them when there are at least 10    *)
(* points, otherwise all earlier points) and emits the degradation Issue    *)
(* (high, quality, metadata.drop = older mean minus recent mean) iff the    *)
(* preceding window is non-empty and the drop is strictly greater than      *)
(* 0.05; 5 older points at 0.90 and 5 recent points at 0.80 give the Issue  *)
(* with drop 0.10, and 5 or fewer points give no degradation Issue.         *)
(* Accuracies are in thousandths.                                           *)
DegradationIffDropAbove5Percent ==
  (mlops_pc = "done" /\ "model_metrics" \in DOMAIN mlops_data)
    => LET sorted == ByTimestamp(mlops_data.model_metrics)
           older == PrecedingWindow(sorted)
           recent == RecentWindow(sorted)
           \* (older mean - recent mean) * Len(older) * Len(recent)
           scaled == TotalAccuracy(older) * Len(recent) - TotalAccuracy(recent) * Len(older)
           found == Titled(mlops_issues, "Model Performance Degradation Detected")
       IN  IF older # <<>> /\ scaled > 50 * Len(older) * Len(recent)
           THEN /\ Len(found) = 1
                /\ found[1].severity = "high" /\ found[1].category = "quality"
                /\ found[1].metadata.drop.num * Len(older) * Len(recent)
                     = scaled * found[1].metadata.drop.den
                /\ found[1].metadata.drop.rounding = 0
           ELSE found = <<>>

(* C24: the low-F1 check is independent of the trend check: whenever the    *)
(* model-metrics section is non-empty and the latest point (by timestamp)   *)
(* has an F1 score below 0.7, the ML analyzer emits the medium / quality    *)
(* low-F1 Issue, whether or not the trend check can run or fires, including *)
(* when the section holds a single point.                                   *)
LowF1OfLatestPointAlwaysReported ==
  (mlops_pc = "done" /\ "model_metrics" \in DOMAIN mlops_data)
    => LET sorted == ByTimestamp(mlops_data.model_metrics)
           found == Titled(mlops_issues, "Low Model F1 Score")
       IN  (sorted # <<>> /\ sorted[Len(sorted)].f1_score < 700)
             => /\ Len(found) = 1
                /\ found[1].severity = "medium" /\ found[1].category = "quality"

WellFormedIssue(x) ==
  /\ x.severity \in {"critical", "high", "medium", "low"}
  /\ x.category \in {"performance", "reliability", "security", "cost", "quality"}
  /\ 0 <= x.confidence /\ x.confidence <= 100
  /\ x.title # "" /\ x.description # "" /\ x.affected_component # ""
  /\ x.impact # "" /\ x.recommendation # ""

(* C26: every Issue returned by either analyzer's analyze, for any batch,   *)
(* has a severity among critical, high, medium, low, a category among       *)
(* performance, reliability, security, cost, quality, a confidence in       *)
(* [0.0, 1.0] (here in hundredths) and non-empty title, description,        *)
(* affected_component, impact and recommendation; so has every synthetic    *)
(* Issue the correlator derives from such analyzer output.                  *)
EveryIssueIsWellFormed ==
  (call = "analyze_pipelines")
    => /\ \A i \in 1..Len(devops_issues) : WellFormedIssue(devops_issues[i])
       /\ \A i \in 1..Len(mlops_issues) : WellFormedIssue(mlops_issues[i])
       /\ pc = "returned"
            => \A i \in 1..Len(ret.cross_pipeline_issues) :
                 WellFormedIssue(ret.cross_pipeline_issues[i])

AnalyzersAndCorrelatorEmittedIssues ==
  /\ call = "analyze_pipelines" /\ pc = "returned"
  /\ devops_issues # <<>> /\ mlops_issues # <<>>
  /\ \E i \in 1..Len(ret.cross_pipeline_issues) :
       ret.cross_pipeline_issues[i].affected_component = "Platform-Wide"

SameIssue(rebuilt, original) ==
  /\ rebuilt.severity = original.severity /\ rebuilt.category = original.category
  /\ rebuilt.title = original.title /\ rebuilt.description = original.description
  /\ rebuilt.affected_component = original.affected_component
  /\ rebuilt.impact = original.impact /\ rebuilt.recommendation = original.recommendation
  /\ rebuilt.confidence = original.confidence
  /\ rebuilt.metadata = (IF original.metadata = None THEN EmptyDict ELSE original.metadata)

SameIssues(rebuilt, original) ==
  /\ Len(rebuilt) = Len(original)
  /\ \A i \in 1..Len(original) : SameIssue(rebuilt[i], original[i])

(* C27: in analyze_and_optimize, the Issues handed to each analyzer's       *)
(* optimize are rebuilt from the dictionaries produced by to_dict, and the  *)
(* round trip is lossless: the rebuilt list has the length and order of the *)
(* list analyze returned, every rebuilt Issue has the same severity,        *)
(* category, title, description, affected_component, impact, recommendation *)
(* and confidence (metadata equal, a missing metadata becoming the empty    *)
(* mapping), and optimize selects the templates it would select on the      *)
(* original Issues.                                                         *)
RebuiltIssuesEqualOriginals ==
  (call = "analyze_pipelines")
    => /\ pc # "raised" \/ devops_pc = "raised" \/ mlops_pc = "raised"
       /\ (pc \in {"optimize_mlops", "optimized"} /\ ret.devops # None)
            => /\ SameIssues(devops_local, devops_issues)
               /\ ret.optimizations.devops
                    = devops_optimize(devops_data, devops_issues).issues
       /\ (pc = "optimized" /\ ret.mlops # None)
            => /\ SameIssues(mlops_local, mlops_issues)
               /\ ret.optimizations.mlops
                    = mlops_optimize(mlops_data, mlops_issues).issues

BothIssueListsRebuilt ==
  /\ call = "analyze_pipelines" /\ pc = "optimized"
  /\ Len(devops_local) >= 2 /\ Len(mlops_local) >= 2
  /\ Len(ret.optimizations.devops) >= 2 /\ Len(ret.optimizations.mlops) >= 3

(* the cycle in progress has raised, and the except clause has not yet run *)
CycleFailed ==
  \/ monitor_pc = "analyze" /\ pc = "raised"
  \/ monitor_pc = "alert_raised"

InCycle == monitor_pc \in {"analyze", "alert_raised", "sleep"}

(* C28: in monitoring mode an exception raised during a cycle (collection, *)
(* analysis, correlation or alerting) does not end monitoring: it is       *)
(* caught, the loop waits one interval, and while monitoring_active stays  *)
(* true a further cycle is started; every cycle, failed or not, is         *)
(* followed by exactly one interval wait before the next.                  *)
FailedCycleWaitsAndContinues ==
  /\ [][ (monitor_pc' = "returned" /\ monitor_pc # "returned")
           => (monitor_pc = "while" /\ ~monitoring_active) ]_vars
  /\ [][ (CycleFailed /\ monitor_pc' # monitor_pc)
           => (monitor_pc' = "while" /\ sleeps' = sleeps + 1) ]_vars
  /\ [](monitor_pc \in {"while", "returned"} => sleeps = cycles)
  /\ [](InCycle => sleeps = cycles - 1)
  /\ \A k \in 1..(MaxCycles - 1) :
       (CycleFailed /\ cycles = k) ~> (cycles = k + 1 \/ ~monitoring_active)

SecondFailedCycleWaited ==
  /\ monitor_pc = "while" /\ monitoring_active
  /\ pc = "raised" /\ cycles = 2 /\ sleeps = 2

ShutdownWhileRunning == ~monitoring_active /\ monitor_pc \notin {"idle", "returned"}

(* C29: once shutdown() has been called while the monitoring loop is       *)
(* running, no new analysis cycle is started: the cycle in progress and    *)
(* its interval wait complete, then the loop observes monitoring_active =  *)
(* false and start_monitoring returns; shutdown never re-enables           *)
(* monitoring_active.                                                      *)
ShutdownEndsMonitoring ==
  /\ [][ ShutdownWhileRunning => (cycles' = cycles /\ ~monitoring_active') ]_vars
  /\ [][ (ShutdownWhileRunning /\ monitor_pc' = "returned") => sleeps = cycles ]_vars
  /\ ShutdownWhileRunning ~> (monitor_pc = "returned")

ReturnedAfterShutdownInCycle ==
  /\ monitor_pc = "returned" /\ ~monitoring_active
  /\ cycles = 1 /\ sleeps = 1 /\ pc = "returned"

CriticalOrHigh(result) ==
  IF result = None THEN <<>>
  ELSE SelectSeq(result.issues, LAMBDA i : i.severity = "critical" \/ i.severity = "high")

(* C30: in a monitoring cycle notifications are sent if and only if        *)
(* notifications are enabled and at least one Issue of severity critical   *)
(* or high is among the delivery-pipeline and ML-pipeline issues of that   *)
(* cycle; the correlator's Issues are never part of the decision, and the  *)
(* decision depends only on that cycle's results.                          *)
AlertIffEnabledAndCriticalOrHigh ==
  /\ (monitor_pc = "analyze") => notified = <<>>
  /\ (monitor_pc \in {"sleep", "alert_raised"})
       => LET found == CriticalOrHigh(ret.devops) \o CriticalOrHigh(ret.mlops)
          IN  /\ (notified # <<>>) <=> (config.enable_notifications /\ found # <<>>)
              /\ (notified # <<>>) => notified = << found >>

AlertedWithoutCrossPipelineIssue ==
  /\ monitor_pc = "sleep" /\ cycles = 2 /\ Len(notified) = 1
  /\ \E i \in 1..Len(ret.cross_pipeline_issues) :
       /\ ret.cross_pipeline_issues[i].severity \in {"critical", "high"}
       /\ \A j \in 1..Len(notified[1]) : notified[1][j] # ret.cross_pipeline_issues[i]

====
